---- MODULE Spec2Model ----
(***************************************************************************)
(* A model of the aide-frame Python package: the hash-keyed PWA icon cache *)
(* (icon_generator.py), alone and with two callers whose file operations   *)
(* interleave, the Markdown documentation structuring engine               *)
(* (docs_viewer.py), the path registry it reads, with its initialization   *)
(* and registration, and the safe path resolution (paths.py), and the      *)
(* request dispatch (http_routes.py).                                      *)
(*                                                                         *)
(* Texts are TLA+ strings; a character of a string s is SubSeq(s, i, i).   *)
(* Python's None is the string "<None>", which no text of the model has.   *)
(***************************************************************************)
EXTENDS Integers, Sequences, FiniteSets, TLC

VARIABLES
    iconsDir,   \* icon cache: does app_dir/static/icons exist
    icons,      \* icon cache: the two asset files, by size
    last,       \* icon cache: the latest ensure_icons call and its outcome
    prev,       \* icon cache: the call before it, when nothing happened between
    cfgA,       \* hashing: a first pwa configuration
    cfgB,       \* hashing: a second pwa configuration
    hashA,      \* hashing: _compute_icon_hash of the first, once computed
    hashB,      \* hashing: _compute_icon_hash of the second, once computed
    fs,         \* docs: the file system, absolute path -> node
    lsRank,     \* docs: the order os.listdir yields names in
    registry,   \* docs: the path registry, key -> directory (paths._app_paths)
    pathGlobals, \* docs: the globals of paths.py, _initialized and the base
                \* directories
    call,       \* the latest call and its arguments (of two concurrent
                \* callers: the position of each)
    ret         \* what that call returned

iconVars == <<iconsDir, icons, last, prev>>
hashVars == <<cfgA, cfgB, hashA, hashB>>
docVars == <<fs, lsRank, registry, pathGlobals, call, ret>>
vars == <<iconsDir, icons, last, prev, cfgA, cfgB, hashA, hashB,
          fs, lsRank, registry, pathGlobals, call, ret>>

None == "<None>"

\* paths.py lines 27-31: the base directories, module globals that init() sets
BaseNames == {"APP_DIR", "PROJECT_DIR", "STATIC_DIR", "VERSION_FILE", "UPDATE_STATE_DIR"}

\* paths.py lines 27-37: the module as it is imported, before init()
NotInitialized == [initialized |-> FALSE, dirs |-> [n \in BaseNames |-> None]]

(***************************************************************************)
(* Text helpers                                                            *)
(***************************************************************************)
Ch(s, i) == SubSeq(s, i, i)

StartsWith(s, p) == Len(s) >= Len(p) /\ SubSeq(s, 1, Len(p)) = p

EndsWith(s, p) == Len(s) >= Len(p) /\ SubSeq(s, Len(s) - Len(p) + 1, Len(s)) = p

\* Python's `p in s` for strings
Contains(s, p) == \E i \in 1..(Len(s) - Len(p) + 1) : SubSeq(s, i, i + Len(p) - 1) = p

\* dict.get(k, default); a dict is a function whose domain is its key set
Get(d, k, default) == IF k \in DOMAIN d THEN d[k] ELSE default

EmptyDict == [k \in {} |-> ""]

\* Python truthiness of a text value (None and '' are falsy)
Truthy(v) == v # None /\ v # ""

(***************************************************************************)
(* icon_generator.py                                                       *)
(*                                                                         *)
(* A relative font size is kept in hundredths (25 stands for 0.25).  A     *)
(* file is [exists, readable, content], its content a sequence of lines.   *)
(***************************************************************************)
DefaultBackground == "#2563eb"

\* repr of a float 0.nn, as json.dumps writes it (10 <= n <= 99, n % 10 # 0)
FloatRepr(n) == "0." \o ToString(n)

JsonString(s) == "\"" \o s \o "\""

\* the keys of config_for_hash in the order sort_keys=True writes them
HashKeys == <<"background", "line1_color", "line1_size", "line1_text",
              "line2_color", "line2_size", "line2_text">>

SizeKeys == {"line1_size", "line2_size"}

JsonValue(k, v) == IF k \in SizeKeys THEN FloatRepr(v) ELSE JsonString(v)

RECURSIVE JsonItems(_, _)
JsonItems(d, i) ==
    IF i > Len(HashKeys) THEN ""
    ELSE JsonString(HashKeys[i]) \o ": " \o JsonValue(HashKeys[i], d[HashKeys[i]])
         \o (IF i < Len(HashKeys) THEN ", " ELSE "") \o JsonItems(d, i + 1)

\* json.dumps(config_for_hash, sort_keys=True)
JsonDumpsSorted(d) == "{" \o JsonItems(d, 1) \o "}"

\* hashlib.md5(s).hexdigest()[:12]: the digest of a text, taken as injective
Md5Hex12(s) == "md5(" \o s \o ")"

\* the dict _compute_icon_hash serializes
ConfigForHash(icon_config, theme_color) ==
    [k \in {HashKeys[i] : i \in 1..Len(HashKeys)} |->
        CASE k = "background" ->
                Get(icon_config, "background",
                    IF Truthy(theme_color) THEN theme_color ELSE DefaultBackground)
          [] k = "line1_text" -> Get(icon_config, "line1_text", "aide")
          [] k = "line1_color" -> Get(icon_config, "line1_color", "#94a3b8")
          [] k = "line1_size" -> Get(icon_config, "line1_size", 25)
          [] k = "line2_text" -> Get(icon_config, "line2_text", "")
          [] k = "line2_color" -> Get(icon_config, "line2_color", "#ffffff")
          [] OTHER -> Get(icon_config, "line2_size", 45)]

\* a plausible slip: the background default ignores theme_color
ComputeIconHashNoTheme(icon_config, theme_color) ==
    Md5Hex12(JsonDumpsSorted(ConfigForHash(icon_config, DefaultBackground)))

\* a plausible slip: the raw theme colour enters the digest as well
ComputeIconHashWithTheme(icon_config, theme_color) ==
    Md5Hex12(JsonDumpsSorted(ConfigForHash(icon_config, theme_color)) \o theme_color)

ComputeIconHash(icon_config, theme_color) ==
    Md5Hex12(JsonDumpsSorted(ConfigForHash(icon_config, theme_color)))

MarkerOpen == "<!-- aide-icon-hash:"
MarkerClose == "-->"

\* re.search(r'<!-- aide-icon-hash: ([a-f0-9]+) -->', content): the digest of the
\* first complete marker of the content, None when there is none
RECURSIVE SearchMarker(_, _)
SearchMarker(content, i) ==
    IF i > Len(content) THEN None
    ELSE IF /\ Len(content[i]) = 3
            /\ content[i][1] = MarkerOpen
            /\ content[i][3] = MarkerClose
            /\ content[i][2] # ""
         THEN content[i][2]
         ELSE SearchMarker(content, i + 1)

ExtractHashFromSvg(file) ==
    IF ~file.exists THEN None
    ELSE IF ~file.readable THEN None
    ELSE SearchMarker(file.content, 1)

RECURSIVE EscapeXmlFrom(_, _)
EscapeXmlFrom(text, i) ==
    IF i > Len(text) THEN ""
    ELSE (CASE Ch(text, i) = "&" -> "&amp;"
            [] Ch(text, i) = "<" -> "&lt;"
            [] Ch(text, i) = ">" -> "&gt;"
            [] Ch(text, i) = "\"" -> "&quot;"
            [] Ch(text, i) = "'" -> "&apos;"
            [] OTHER -> Ch(text, i)) \o EscapeXmlFrom(text, i + 1)

EscapeXml(text) == EscapeXmlFrom(text, 1)

\* int(size * fraction), the fraction in hundredths
Scaled(size, hundredths) == (size * hundredths) \div 100

\* a plausible slip: the generated asset does not embed the hash marker
GenerateSvgNoMarker(size, icon_config, theme_color, config_hash) ==
    << <<"<svg", ToString(size), ToString(size)>>,
       <<"<rect", ToString(size), ToString(size),
         ConfigForHash(icon_config, theme_color)["background"]>>,
       <<"</svg>">>, <<"">> >>

GenerateSvg(size, icon_config, theme_color, config_hash) ==
    LET c == ConfigForHash(icon_config, theme_color)
        sz == ToString(size)
        cx == ToString(size \div 2)
    IN  << <<MarkerOpen, config_hash, MarkerClose>>,
           <<"<svg", sz, sz>>,
           <<"<rect", sz, sz, c["background"]>> >>
        \o (IF Truthy(c["line1_text"])
            THEN << <<"<text", cx, ToString(Scaled(size, 35)),
                      ToString(Scaled(size, c["line1_size"])), "italic",
                      c["line1_color"], EscapeXml(c["line1_text"])>> >>
            ELSE <<>>)
        \o (IF Truthy(c["line2_text"])
            THEN << <<"<text", cx, ToString(Scaled(size, 70)),
                      ToString(Scaled(size, c["line2_size"])), "bold",
                      c["line2_color"], EscapeXml(c["line2_text"])>> >>
            ELSE <<>>)
        \o << <<"</svg>">>, <<"">> >>

Sizes == {192, 512}

NoFile == [exists |-> FALSE, readable |-> FALSE, content |-> <<>>]

\* the most lines a write that fails part-way leaves in the file
MaxKeep == 1

NoFault == [kind |-> "none", size |-> 0, keep |-> 0]

\* what the file system can refuse during one call: creating the directory,
\* opening a file for writing, or completing a write (keep lines reach the file)
Faults ==
    {NoFault, [kind |-> "mkdir", size |-> 0, keep |-> 0]}
    \cup {[kind |-> "open", size |-> s, keep |-> 0] : s \in Sizes}
    \cup {[kind |-> "write", size |-> s, keep |-> k] : s \in Sizes, k \in 0..MaxKeep}

\* open(path, 'w') then f.write(svg) on one file, without failure: an existing
\* file keeps its mode, a new one is readable
Written(file, svg) ==
    [exists |-> TRUE, readable |-> IF file.exists THEN file.readable ELSE TRUE,
     content |-> svg]

\* a plausible slip: only the first of the two hashes is compared
UpToDateFirstOnly(h192, h512, expected) == h192 = expected

\* line 218: both existing hashes equal the expected one
UpToDate(h192, h512, expected) == h192 = expected /\ h512 = expected

\* the pwa configurations the application is started with
PwaConfigs ==
    << [icon |-> [line2_text |-> "Py"]],
       [theme_color |-> "#000000", icon |-> [line2_text |-> "Py", line1_text |-> "a&b"]],
       [name |-> "App", icon |-> [line1_text |-> "aide"]],
       [icon |-> [line2_text |-> "", line1_text |-> "aide"]] >>

\* lines 197 and 210: the two values ensure_icons reads from pwa_config
IconConfigOf(pwa_config) == Get(pwa_config, "icon", EmptyDict)
ThemeColorOf(pwa_config) == Get(pwa_config, "theme_color", DefaultBackground)

\* line 211, per configuration: expected_hash
ExpectedHash ==
    [c \in 1..Len(PwaConfigs) |->
        ComputeIconHash(IconConfigOf(PwaConfigs[c]), ThemeColorOf(PwaConfigs[c]))]

\* lines 233-234, per configuration and size: svg_192 and svg_512
IconSvg ==
    [c \in 1..Len(PwaConfigs) |->
        [s \in Sizes |-> GenerateSvg(s, IconConfigOf(PwaConfigs[c]),
                                     ThemeColorOf(PwaConfigs[c]), ExpectedHash[c])]]

\* a plausible slip: only a missing line2_text opts out, an empty one does not
ConfiguredUnlessMissing(value) == value # None

\* line 200: icon_config.get('line2_text') is truthy
Configured(value) == Truthy(value)

\* ensure_icons(app_dir, PwaConfigs[c], force) from the directory state dir and
\* the files state files, the file system refusing what fault says:
\* [dir, files, result, wrote, fault], result one of "true", "false", "raise"
EnsureIcons(c, force, fault, dir, files) ==
    LET icon_config == IconConfigOf(PwaConfigs[c])
        expected_hash == ExpectedHash[c]
        kept(result) == [dir |-> dir, files |-> files, result |-> result,
                         wrote |-> {}, fault |-> "none"]
        cut(s) == [exists |-> TRUE,
                   readable |-> IF files[s].exists THEN files[s].readable ELSE TRUE,
                   content |-> SubSeq(IconSvg[c][s], 1, fault.keep)]
        one == [files EXCEPT ![192] = Written(files[192], IconSvg[c][192])]
        both == [one EXCEPT ![512] = Written(files[512], IconSvg[c][512])]
    IN  IF ~Configured(Get(icon_config, "line2_text", None)) THEN kept("false")
        ELSE IF /\ ~force
                /\ UpToDate(ExtractHashFromSvg(files[192]),
                            ExtractHashFromSvg(files[512]), expected_hash)
             THEN kept("false")
        ELSE IF fault.kind = "mkdir" /\ ~dir
             THEN [kept("raise") EXCEPT !.fault = "mkdir"]
        ELSE IF fault.kind = "open" /\ fault.size = 192
             THEN [dir |-> TRUE, files |-> files, result |-> "false",
                   wrote |-> {}, fault |-> "open"]
        ELSE IF fault.kind = "write" /\ fault.size = 192
             THEN [dir |-> TRUE, files |-> [files EXCEPT ![192] = cut(192)],
                   result |-> "false", wrote |-> {192}, fault |-> "write"]
        ELSE IF fault.kind = "open" /\ fault.size = 512
             THEN [dir |-> TRUE, files |-> one, result |-> "false",
                   wrote |-> {192}, fault |-> "open"]
        ELSE IF fault.kind = "write" /\ fault.size = 512
             THEN [dir |-> TRUE, files |-> [one EXCEPT ![512] = cut(512)],
                   result |-> "false", wrote |-> {192, 512}, fault |-> "write"]
        ELSE [dir |-> TRUE, files |-> both, result |-> "true",
              wrote |-> {192, 512}, fault |-> "none"]

NoCall == [made |-> FALSE, cfg |-> 0, force |-> FALSE, result |-> "", wrote |-> {},
           fault |-> "none", dirBefore |-> FALSE, before |-> [s \in Sizes |-> NoFile]]

\* prev is the result of the call before the latest one when the two are the same
\* call (one configuration, force false in both) with nothing happening between
NoPrev == "-"

\* a file some other program left in the icons directory
Foreign == << <<"<svg", "16", "16">>, <<"</svg>">> >>

IconIdle == iconsDir = FALSE /\ icons = [s \in Sizes |-> NoFile]
            /\ last = NoCall /\ prev = NoPrev

HashIdle == cfgA = EmptyDict /\ cfgB = EmptyDict /\ hashA = None /\ hashB = None

DocIdle == fs = EmptyDict /\ lsRank = 0 /\ registry = EmptyDict
           /\ pathGlobals = NotInitialized
           /\ call = <<>> /\ ret = <<>>

\* the application calls ensure_icons(app_dir, PwaConfigs[c], force)
EnsureIconsCall(c, force, fault) ==
    LET out == EnsureIcons(c, force, fault, iconsDir, icons)
    IN  /\ iconsDir' = out.dir
        /\ icons' = out.files
        /\ last' = [made |-> TRUE, cfg |-> c, force |-> force, result |-> out.result,
                    wrote |-> out.wrote, fault |-> out.fault,
                    dirBefore |-> iconsDir, before |-> icons]
        /\ prev' = IF last.made /\ last.cfg = c /\ ~last.force /\ ~force
                   THEN last.result ELSE NoPrev
        /\ UNCHANGED <<hashVars, docVars>>

\* something else removes one icon file
EnvRemove(s) ==
    /\ icons[s].exists
    /\ icons' = [icons EXCEPT ![s] = NoFile]
    /\ last' = NoCall /\ prev' = NoPrev
    /\ UNCHANGED <<iconsDir, hashVars, docVars>>

\* something else overwrites one icon file with a file that has no marker
EnvClobber(s) ==
    /\ iconsDir
    /\ icons' = [icons EXCEPT ![s] = Written(icons[s], Foreign)]
    /\ last' = NoCall /\ prev' = NoPrev
    /\ UNCHANGED <<iconsDir, hashVars, docVars>>

\* the mode of one icon file changes: it can or cannot be read
EnvChmod(s) ==
    /\ icons[s].exists
    /\ icons' = [icons EXCEPT ![s].readable = ~icons[s].readable]
    /\ last' = NoCall /\ prev' = NoPrev
    /\ UNCHANGED <<iconsDir, hashVars, docVars>>

\* the icons directory is removed with what it holds
EnvRmTree ==
    /\ iconsDir
    /\ iconsDir' = FALSE
    /\ icons' = [s \in Sizes |-> NoFile]
    /\ last' = NoCall /\ prev' = NoPrev
    /\ UNCHANGED <<hashVars, docVars>>

IconInit == IconIdle /\ HashIdle /\ DocIdle

IconNext ==
    \/ \E c \in 1..Len(PwaConfigs), force \in BOOLEAN, fault \in Faults :
          EnsureIconsCall(c, force, fault)
    \/ \E s \in Sizes : EnvRemove(s)
    \/ \E s \in Sizes : EnvClobber(s)
    \/ \E s \in Sizes : EnvChmod(s)
    \/ EnvRmTree

SpecIcons == IconInit /\ [][IconNext]_vars

(***************************************************************************)
(* icon_generator.py: two callers of ensure_icons on one target directory  *)
(* (two threads, or two processes started on one app_dir).  The function   *)
(* takes no lock, so the steps of the two calls interleave freely: the     *)
(* test of line 200, the two reads of lines 215-216, os.makedirs, and for  *)
(* each file open(path, 'w'), which empties it, and the write that is      *)
(* flushed when the with block is left.  call[p] is the position of caller *)
(* p with what it has read so far, ret.overlap records whether the two     *)
(* calls were ever in progress at once.  No file system failure happens    *)
(* here.                                                                   *)
(***************************************************************************)
Callers == {1, 2}

NotStarted ==
    [pc |-> "idle", cfg |-> 0, force |-> FALSE, h192 |-> None, h512 |-> None,
     result |-> ""]

InProgress(p) == call[p].pc \notin {"idle", "done"}

\* open(path, 'w'): the file exists and is empty
Truncated(file) ==
    [exists |-> TRUE, readable |-> IF file.exists THEN file.readable ELSE TRUE,
     content |-> <<>>]

\* the buffered content reaches the file at offset 0: what another writer
\* put there beyond its length stays
Overlaid(file, svg) ==
    [file EXCEPT !.content =
        [k \in 1..(IF Len(svg) > Len(file.content) THEN Len(svg)
                   ELSE Len(file.content)) |->
            IF k <= Len(svg) THEN svg[k] ELSE file.content[k]]]

\* lines 197-213: the call begins, returns False at once without line2_text,
\* and goes to the reads or, when forced, past them
Begin(p, c, force) ==
    /\ call[p].pc = "idle"
    /\ call' = [call EXCEPT ![p] =
          [NotStarted EXCEPT
             !.cfg = c, !.force = force,
             !.pc = IF ~Configured(Get(IconConfigOf(PwaConfigs[c]), "line2_text", None))
                    THEN "done"
                    ELSE IF force THEN "mkdir" ELSE "read192",
             !.result = IF ~Configured(Get(IconConfigOf(PwaConfigs[c]), "line2_text",
                                           None))
                        THEN "false" ELSE ""]]
    /\ ret' = [overlap |-> ret.overlap \/ \E q \in Callers \ {p} : InProgress(q)]
    /\ UNCHANGED <<iconVars, hashVars, fs, lsRank, registry, pathGlobals>>

\* line 215
Read192(p) ==
    /\ call[p].pc = "read192"
    /\ call' = [call EXCEPT ![p].h192 = ExtractHashFromSvg(icons[192]),
                            ![p].pc = "read512"]
    /\ UNCHANGED <<iconVars, hashVars, fs, lsRank, registry, pathGlobals, ret>>

\* lines 216-220: the second read and the decision
Read512(p) ==
    /\ call[p].pc = "read512"
    /\ \E h512 \in {ExtractHashFromSvg(icons[512])} :
          \E current \in {UpToDate(call[p].h192, h512, ExpectedHash[call[p].cfg])} :
              call' = [call EXCEPT ![p].h512 = h512,
                                   ![p].pc = IF current THEN "done" ELSE "mkdir",
                                   ![p].result = IF current THEN "false" ELSE ""]
    /\ UNCHANGED <<iconVars, hashVars, fs, lsRank, registry, pathGlobals, ret>>

\* line 230
MakeDirs(p) ==
    /\ call[p].pc = "mkdir"
    /\ iconsDir' = TRUE
    /\ call' = [call EXCEPT ![p].pc = "open192"]
    /\ UNCHANGED <<icons, last, prev, hashVars, fs, lsRank, registry, pathGlobals, ret>>

\* lines 238 and 241: open(path, 'w')
OpenForWrite(p, s) ==
    /\ call[p].pc = (IF s = 192 THEN "open192" ELSE "open512")
    /\ icons' = [icons EXCEPT ![s] = Truncated(icons[s])]
    /\ call' = [call EXCEPT ![p].pc = IF s = 192 THEN "write192" ELSE "write512"]
    /\ UNCHANGED <<iconsDir, last, prev, hashVars, fs, lsRank, registry, pathGlobals, ret>>

\* lines 239 and 242, and 245: the content is written; after the second file
\* the call returns True
WriteOut(p, s) ==
    /\ call[p].pc = (IF s = 192 THEN "write192" ELSE "write512")
    /\ icons' = [icons EXCEPT ![s] = Overlaid(icons[s], IconSvg[call[p].cfg][s])]
    /\ call' = [call EXCEPT ![p].pc = IF s = 192 THEN "open512" ELSE "done",
                            ![p].result = IF s = 192 THEN "" ELSE "true"]
    /\ UNCHANGED <<iconsDir, last, prev, hashVars, fs, lsRank, registry, pathGlobals, ret>>

ConcurrentInit ==
    /\ IconIdle /\ HashIdle
    /\ fs = EmptyDict /\ lsRank = 0 /\ registry = EmptyDict
    /\ pathGlobals = NotInitialized
    /\ call = [p \in Callers |-> NotStarted]
    /\ ret = [overlap |-> FALSE]

ConcurrentNext ==
    \E p \in Callers :
        \/ \E c \in 1..Len(PwaConfigs), force \in BOOLEAN : Begin(p, c, force)
        \/ Read192(p)
        \/ Read512(p)
        \/ MakeDirs(p)
        \/ \E s \in Sizes : OpenForWrite(p, s)
        \/ \E s \in Sizes : WriteOut(p, s)

SpecConcurrent == ConcurrentInit /\ [][ConcurrentNext]_vars

BothReturned == \A p \in Callers : call[p].pc = "done"

\* C24: ensure_icons has no serialization of its own.  A run of two calls on
\* one directory that ends with icon-192.svg and icon-512.svg carrying
\* different hashes is one where the two calls were in progress at once, both
\* decided to regenerate and returned true, and their configurations hash
\* differently; a run whose calls did not overlap ends with both files the
\* complete icons of a call that regenerated
C24_MixedOnlyByInterleaving ==
    BothReturned =>
        /\ ExtractHashFromSvg(icons[192]) # ExtractHashFromSvg(icons[512])
              => /\ ret.overlap
                 /\ \A p \in Callers : call[p].result = "true"
                 /\ ExpectedHash[call[1].cfg] # ExpectedHash[call[2].cfg]
        /\ (~ret.overlap /\ \E p \in Callers : call[p].result = "true")
              => \E p \in Callers :
                    /\ call[p].result = "true"
                    /\ \A s \in Sizes :
                          /\ icons[s].content = IconSvg[call[p].cfg][s]
                          /\ ExtractHashFromSvg(icons[s]) = ExpectedHash[call[p].cfg]

\* both calls, unforced, read the files before either wrote, both returned
\* true, and the two files carry the hashes of the two configurations
C24_Witness ==
    /\ BothReturned
    /\ \A p \in Callers : ~call[p].force /\ call[p].result = "true"
                          /\ call[p].h192 = None /\ call[p].h512 = None
    /\ ExtractHashFromSvg(icons[192]) = ExpectedHash[call[1].cfg]
    /\ ExtractHashFromSvg(icons[512]) = ExpectedHash[call[2].cfg]
    /\ ExpectedHash[call[1].cfg] # ExpectedHash[call[2].cfg]

(***************************************************************************)
(* Text order and case.  An operator that walks a text takes the text's    *)
(* value first (x \in {s}), so that the walk does not evaluate the         *)
(* expression it was handed once for every character.                      *)
(***************************************************************************)
\* the characters the model's texts use, in code point order
Ascii == "\t !#&*-./0123456789?ABCDEFGHIJKLMNOPQRSTUVWXYZ_abcdefghijklmnopqrstuvwxyz|"

\* a character's rank among them: Python compares texts by code point
Ord == [c \in {Ch(Ascii, i) : i \in 1..Len(Ascii)} |->
            CHOOSE i \in 1..Len(Ascii) : Ch(Ascii, i) = c]

RECURSIVE StrLtFrom(_, _, _)
StrLtFrom(a, b, i) ==
    IF i > Len(b) THEN FALSE
    ELSE IF i > Len(a) THEN TRUE
    ELSE IF Ch(a, i) = Ch(b, i) THEN StrLtFrom(a, b, i + 1)
    ELSE Ord[Ch(a, i)] < Ord[Ch(b, i)]

\* a < b for two texts
StrLt(a, b) == \E x \in {a}, y \in {b} : StrLtFrom(x, y, 1)

Lowers == "abcdefghijklmnopqrstuvwxyz"
Uppers == "ABCDEFGHIJKLMNOPQRSTUVWXYZ"

ToUpper == [c \in {Ch(Lowers, i) : i \in 1..26} |->
                Ch(Uppers, CHOOSE i \in 1..26 : Ch(Lowers, i) = c)]
ToLower == [c \in {Ch(Uppers, i) : i \in 1..26} |->
                Ch(Lowers, CHOOSE i \in 1..26 : Ch(Uppers, i) = c)]

IsLetter(c) == c \in DOMAIN ToUpper \/ c \in DOMAIN ToLower

\* str.title(): a letter after a non-letter is upper-cased, any other lower-cased
RECURSIVE TitleFrom(_, _)
TitleFrom(s, i) ==
    IF i > Len(s) THEN ""
    ELSE LET c == Ch(s, i)
             first == i = 1 \/ ~IsLetter(Ch(s, i - 1))
         IN  (IF ~IsLetter(c) THEN c
              ELSE IF first THEN (IF c \in DOMAIN ToUpper THEN ToUpper[c] ELSE c)
              ELSE (IF c \in DOMAIN ToLower THEN ToLower[c] ELSE c))
             \o TitleFrom(s, i + 1)

Title(s) == CHOOSE r \in {TitleFrom(x, 1) : x \in {s}} : TRUE

\* str.replace(old, new): every occurrence, left to right
RECURSIVE ReplaceFrom(_, _, _, _)
ReplaceFrom(s, old, new, i) ==
    IF i > Len(s) THEN ""
    ELSE IF i + Len(old) - 1 <= Len(s) /\ SubSeq(s, i, i + Len(old) - 1) = old
         THEN new \o ReplaceFrom(s, old, new, i + Len(old))
         ELSE Ch(s, i) \o ReplaceFrom(s, old, new, i + 1)

Replace(s, old, new) == CHOOSE r \in {ReplaceFrom(x, old, new, 1) : x \in {s}} : TRUE

IsSpace(c) == c = " " \/ c = "\t"

\* str.lstrip() and str.rstrip(): the text from its first, and up to its
\* last, character that is not white space
LStrip(s) ==
    CHOOSE r \in {IF \A i \in 1..Len(x) : IsSpace(Ch(x, i)) THEN ""
                  ELSE SubSeq(x, CHOOSE i \in 1..Len(x) :
                                    /\ ~IsSpace(Ch(x, i))
                                    /\ \A j \in 1..(i - 1) : IsSpace(Ch(x, j)),
                              Len(x)) : x \in {s}} : TRUE

RStrip(s) ==
    CHOOSE r \in {IF \A i \in 1..Len(x) : IsSpace(Ch(x, i)) THEN ""
                  ELSE SubSeq(x, 1, CHOOSE i \in 1..Len(x) :
                                       /\ ~IsSpace(Ch(x, i))
                                       /\ \A j \in (i + 1)..Len(x) : IsSpace(Ch(x, j)))
                  : x \in {s}} : TRUE

\* str.strip()
Strip(s) == RStrip(LStrip(s))

\* str.split('/')
RECURSIVE SplitFrom(_, _, _)
SplitFrom(s, start, i) ==
    IF i > Len(s) THEN <<SubSeq(s, start, Len(s))>>
    ELSE IF Ch(s, i) = "/" THEN <<SubSeq(s, start, i - 1)>> \o SplitFrom(s, i + 1, i + 1)
    ELSE SplitFrom(s, start, i + 1)

Split(s) == CHOOSE r \in {SplitFrom(x, 1, 1) : x \in {s}} : TRUE

\* a < b for two sort keys, compared as Python compares tuples: part by part.
\* A key is a sequence of texts; a small number is written as its digit
RECURSIVE KeyLtFrom(_, _, _)
KeyLtFrom(a, b, i) ==
    IF i > Len(b) THEN FALSE
    ELSE IF i > Len(a) THEN TRUE
    ELSE IF a[i] = b[i] THEN KeyLtFrom(a, b, i + 1)
    ELSE StrLt(a[i], b[i])

KeyLt(a, b) == \E x \in {a}, y \in {b} : KeyLtFrom(x, y, 1)

\* the place each key takes in the sorted order: after the smaller keys and
\* after the equal keys that stand before it
KeyPositions(keys) ==
    CHOOSE r \in {[i \in 1..Len(k) |->
                     1 + Cardinality({j \in 1..Len(k) :
                                        /\ j # i
                                        /\ KeyLt(k[j], k[i]) \/ (k[j] = k[i] /\ j < i)})] :
                     k \in {keys}} : TRUE

\* list.sort(key=...): seq ordered by keys (keys[i] the key of seq[i]), stable:
\* elements with equal keys keep their order
StableSortByKey(seq, keys) ==
    CHOOSE r \in {[j \in 1..Len(x) |-> x[CHOOSE i \in 1..Len(x) : pos[i] = j]] :
                     x \in {seq}, pos \in {KeyPositions(keys)}} : TRUE

Reverse(seq) == [k \in 1..Len(seq) |-> seq[Len(seq) + 1 - k]]

(***************************************************************************)
(* The file system the package reads.  fs maps the absolute path of every  *)
(* existing entry to [kind, parent, name, lines, target, mode]: kind is    *)
(* "dir", "file" or "link", lines a file's text lines (their line ends     *)
(* dropped), target a symbolic link's text, mode "ok", "noread" (open is   *)
(* refused) or "badutf8" (reading raises UnicodeDecodeError).  The root    *)
(* directory "/" is implicit.                                              *)
(***************************************************************************)
DirNode(parent, name) ==
    [kind |-> "dir", parent |-> parent, name |-> name, lines |-> <<>>,
     target |-> "", mode |-> "ok"]

FileNode(parent, name, lines) ==
    [kind |-> "file", parent |-> parent, name |-> name, lines |-> lines,
     target |-> "", mode |-> "ok"]

LinkNode(parent, name, target) ==
    [kind |-> "link", parent |-> parent, name |-> name, lines |-> <<>>,
     target |-> target, mode |-> "ok"]

PathOf(n) == n.parent \o "/" \o n.name

MkFs(nodes) == [p \in {PathOf(n) : n \in nodes} |-> CHOOSE n \in nodes : PathOf(n) = p]

\* os.path.join(a, b)
Join(a, b) ==
    IF StartsWith(b, "/") THEN b
    ELSE IF a = "" \/ EndsWith(a, "/") THEN a \o b
    ELSE a \o "/" \o b

\* the path of a sequence of components under the root
RECURSIVE PathStr(_)
PathStr(comps) ==
    IF comps = <<>> THEN ""
    ELSE PathStr(SubSeq(comps, 1, Len(comps) - 1)) \o "/" \o comps[Len(comps)]

\* posixpath._joinrealpath: resolve the components rest below the resolved
\* components done, following symbolic links (hops bounds the links followed)
RECURSIVE JoinRealPath(_, _, _)
JoinRealPath(done, rest, hops) ==
    IF rest = <<>> THEN done
    ELSE LET name == rest[1]
             more == SubSeq(rest, 2, Len(rest))
             newpath == PathStr(done \o <<name>>)
         IN  IF name = "" \/ name = "." THEN JoinRealPath(done, more, hops)
             ELSE IF name = ".."
                  THEN JoinRealPath(SubSeq(done, 1, Len(done) - 1), more, hops)
             ELSE IF newpath \in DOMAIN fs /\ fs[newpath].kind = "link" /\ hops > 0
                  THEN LET t == fs[newpath].target
                       IN  JoinRealPath(IF StartsWith(t, "/") THEN <<>> ELSE done,
                                        Split(t) \o more, hops - 1)
             ELSE JoinRealPath(done \o <<name>>, more, hops)

\* os.path.realpath of an absolute path; the root is "/"
RealPath(p) ==
    LET r == PathStr(JoinRealPath(<<>>, Split(p), Cardinality(DOMAIN fs)))
    IN  IF r = "" THEN "/" ELSE r

\* os.path.dirname of a resolved path
DirName(p) ==
    CHOOSE r \in {IF \A i \in 2..Len(x) : Ch(x, i) # "/" THEN "/"
                  ELSE SubSeq(x, 1, (CHOOSE i \in 2..Len(x) :
                                        /\ Ch(x, i) = "/"
                                        /\ \A j \in (i + 1)..Len(x) : Ch(x, j) # "/") - 1)
                  : x \in {p}} : TRUE

\* whether a resolved path that does not exist lies below a regular file
RECURSIVE BelowFile(_)
BelowFile(r) ==
    LET d == DirName(r)
    IN  IF d = "/" THEN FALSE
        ELSE IF d \in DOMAIN fs THEN fs[d].kind = "file"
        ELSE BelowFile(d)

Missing == [kind |-> "enoent", parent |-> "", name |-> "", lines |-> <<>>,
            target |-> "", mode |-> "ok"]

NotDir == [Missing EXCEPT !.kind = "enotdir"]

\* stat(p), links followed: the entry, or the error the system answers with
Stat(p) ==
    IF p \in DOMAIN fs /\ fs[p].kind # "link" THEN fs[p]
    ELSE LET r == RealPath(p)
         IN  IF r = "/" THEN DirNode("", "")
             ELSE IF r \in DOMAIN fs
                  THEN (IF fs[r].kind = "file" /\ EndsWith(p, "/") THEN NotDir ELSE fs[r])
             ELSE IF BelowFile(r) THEN NotDir
             ELSE Missing

IsDir(p) == Stat(p).kind = "dir"
IsFile(p) == Stat(p).kind = "file"

\* the elements of a set, one after the other
RECURSIVE SetToSeq(_)
SetToSeq(S) ==
    IF S = {} THEN <<>>
    ELSE CHOOSE r \in {<<x>> \o SetToSeq(S \ {x}) : x \in {CHOOSE y \in S : TRUE}} : TRUE

\* the order a directory listing has, which is any: one order of the names,
\* that order backwards, or that order begun at its second name
Listed(names) ==
    CASE lsRank = 1 -> names
      [] lsRank = 2 -> Reverse(names)
      [] OTHER -> IF Len(names) < 2 THEN names
                  ELSE SubSeq(names, 2, Len(names)) \o <<names[1]>>

\* os.listdir(d) of a directory: its entries' names, in the listing's order
ListDir(d) ==
    CHOOSE l \in {Listed(SetToSeq(S)) :
                    S \in {{fs[p].name : p \in {q \in DOMAIN fs : fs[q].parent = r}} :
                           r \in {IF d \in DOMAIN fs /\ fs[d].kind = "dir" THEN d
                                  ELSE RealPath(d)}}} : TRUE

\* paths.py lines 51-55: the base directories init(app_dir) sets
BaseDirsOf(app_dir) ==
    [APP_DIR |-> app_dir,
     PROJECT_DIR |-> DirName(app_dir),
     STATIC_DIR |-> Join(app_dir, "static"),
     VERSION_FILE |-> Join(app_dir, "VERSION"),
     UPDATE_STATE_DIR |-> Join(DirName(app_dir), ".update")]

\* the module after init(app_dir)
InitializedAt(app_dir) == [initialized |-> TRUE, dirs |-> BaseDirsOf(app_dir)]

\* d[k] = v on a dict
SetItem(d, k, v) == [x \in DOMAIN d \cup {k} |-> IF x = k THEN v ELSE d[x]]

\* where the package lies: os.path.abspath(__file__) of paths.py is
\* PkgDir/paths.py
PkgDir == "/opt/aide-frame/python/aide_frame"

\* the module's state, [globals, registry], after the two assignments of
\* register(name, path) (lines 92-94)
Registered(name, path, state) ==
    [globals |-> IF name \in BaseNames
                 THEN [state.globals EXCEPT !.dirs[name] = path]
                 ELSE state.globals,
     registry |-> SetItem(state.registry, name, path)]

\* init(app_dir), lines 46-73
PathsInit(app_dir, state) ==
    LET dir == IF app_dir = None THEN DirName(PkgDir) ELSE app_dir
        aide_frame_root == DirName(DirName(PkgDir))
        aide_frame_docs == Join(aide_frame_root, "docs")
        aide_frame_static == Join(aide_frame_root, "static")
        set == [globals |-> InitializedAt(dir), registry |-> state.registry]
        with_docs == IF IsDir(aide_frame_docs)
                     THEN Registered("AIDE_FRAME_DOCS_DIR", aide_frame_docs, set)
                     ELSE set
    IN  IF IsDir(aide_frame_static)
        THEN Registered("AIDE_FRAME_STATIC_DIR", aide_frame_static, with_docs)
        ELSE with_docs

\* a plausible slip: init() runs on every call
EnsureInitializedAlways(state) == PathsInit(None, state)

\* ensure_initialized(), lines 76-79
EnsureInitialized(state) ==
    IF ~state.globals.initialized THEN PathsInit(None, state) ELSE state

\* register(name, path), lines 82-94
Register(name, path, state) == Registered(name, path, EnsureInitialized(state))

\* paths.get(name): the registered directory, else the module global of that
\* name (of the module's globals the model has the base directories), or None
PathsGet(name) ==
    Get(registry, name, IF name \in BaseNames THEN pathGlobals.dirs[name] ELSE None)

(***************************************************************************)
(* paths.py: resolve_safe_path.  The outcome of a call is [kind, path,     *)
(* error]: kind "ok" with the path returned, or "raise" with the exception. *)
(***************************************************************************)
\* '/'.join(comps)
RECURSIVE JoinSlash(_, _)
JoinSlash(comps, n) ==
    IF n = 0 THEN ""
    ELSE IF n = 1 THEN comps[1]
    ELSE JoinSlash(comps, n - 1) \o "/" \o comps[n]

\* posixpath.normpath, its loop over the components from component i on;
\* kept is new_comps
RECURSIVE NormComps(_, _, _, _)
NormComps(comps, i, kept, initial_slashes) ==
    IF i > Len(comps) THEN kept
    ELSE IF comps[i] \in {"", "."} THEN NormComps(comps, i + 1, kept, initial_slashes)
    ELSE IF \/ comps[i] # ".."
            \/ (initial_slashes = 0 /\ kept = <<>>)
            \/ (kept # <<>> /\ kept[Len(kept)] = "..")
    THEN NormComps(comps, i + 1, Append(kept, comps[i]), initial_slashes)
    ELSE IF kept # <<>>
    THEN NormComps(comps, i + 1, SubSeq(kept, 1, Len(kept) - 1), initial_slashes)
    ELSE NormComps(comps, i + 1, kept, initial_slashes)

\* os.path.normpath(path)
NormPath(path) ==
    CHOOSE r \in
      {IF p = "" THEN "."
       ELSE CHOOSE q \in
              {IF slashes = 0 /\ kept = <<>> THEN "."
               ELSE SubSeq("//", 1, slashes) \o JoinSlash(kept, Len(kept)) :
               slashes \in {n \in 0..2 :
                              n = IF ~StartsWith(p, "/") THEN 0
                                  ELSE IF StartsWith(p, "//") /\ ~StartsWith(p, "///")
                                  THEN 2 ELSE 1},
               kept \in {NormComps(Split(p), 1, <<>>,
                                   IF StartsWith(p, "/") THEN 1 ELSE 0)}} : TRUE :
       p \in {path}} : TRUE

\* os.path.isabs
IsAbs(path) == StartsWith(path, "/")

PathResolved(path) == [kind |-> "ok", path |-> path, error |-> ""]
PathRaised(error) == [kind |-> "raise", path |-> None, error |-> error]

\* line 143: the traversal test on the path as given
RejectedEarly(path_str) == Contains(path_str, "..")

\* resolve_safe_path(path_str, base_dir); base_dir None stands for PROJECT_DIR
ResolveSafePath(path_str, base_dir) ==
    LET base == IF base_dir = None THEN pathGlobals.dirs["PROJECT_DIR"] ELSE base_dir
    IN  IF RejectedEarly(path_str) THEN PathRaised("PathSecurityError")
        ELSE CHOOSE r \in
               {IF Contains(resolved, "..") THEN PathRaised("PathSecurityError")
                ELSE PathResolved(resolved) :
                resolved \in {IF IsAbs(path_str) THEN NormPath(path_str)
                              ELSE NormPath(Join(base, path_str))}} : TRUE

\* the paths a configuration gives
PathStrs ==
    {"docs", "docs/img/logo.png", "./docs//img/", "", ".", "a.b", "v1..2/notes",
     "..", "../etc/passwd", "docs/../../etc", "/etc/passwd", "/srv/project/docs",
     "/srv/project", "//srv/project/x", "/srv/../etc", "/srv/project-old/x"}

\* the base directories a caller gives (None: the default)
BaseDirs == {None, "/srv/project", "/srv/project/", "/", "/srv/project/app/..", "rel/base", "/srv"}

\* the project directories init() leaves in PROJECT_DIR
ProjectDirs == {"/srv/project", "/home/u/proj"}

ResolveInit ==
    /\ fs = EmptyDict
    /\ lsRank = 1
    /\ registry = EmptyDict
    /\ \E d \in ProjectDirs : pathGlobals = InitializedAt(Join(d, "app"))
    /\ call = [op |-> "none"]
    /\ ret = [kind |-> "none", path |-> None, error |-> ""]
    /\ IconIdle /\ HashIdle

ResolveSafePathCall(path_str, base_dir) ==
    /\ call.op = "none"
    /\ call' = [op |-> "resolve_safe_path", path_str |-> path_str,
                base_dir |-> base_dir]
    /\ ret' = ResolveSafePath(path_str, base_dir)
    /\ UNCHANGED <<fs, lsRank, registry, pathGlobals, iconVars, hashVars>>

ResolveNext == \E path_str \in PathStrs, base_dir \in BaseDirs :
                  ResolveSafePathCall(path_str, base_dir)

SpecResolve == ResolveInit /\ [][ResolveNext]_vars

\* the base directory the latest call resolved against
CalledBase ==
    IF call.base_dir = None THEN pathGlobals.dirs["PROJECT_DIR"] ELSE call.base_dir

\* path is dir or lies below it, both written without '.', '..' or a double '/'
EqualOrNestedUnder(path, dir) ==
    \/ path = dir
    \/ StartsWith(path, IF EndsWith(dir, "/") THEN dir ELSE dir \o "/")

\* C18: resolve_safe_path(path_str, base_dir) either raises PathSecurityError
\* or returns an absolute path that is base_dir or lies below it, for every
\* path_str, relative or absolute; a path_str that contains '..' is rejected
C18_SafeUnderBase ==
    call.op = "resolve_safe_path" =>
        /\ Contains(call.path_str, "..") =>
              ret.kind = "raise" /\ ret.error = "PathSecurityError"
        /\ \/ ret.kind = "raise" /\ ret.error = "PathSecurityError"
           \/ /\ ret.kind = "ok"
              /\ IsAbs(ret.path)
              /\ EqualOrNestedUnder(ret.path, NormPath(CalledBase))

(***************************************************************************)
(* docs_viewer.py: load_file                                               *)
(***************************************************************************)
NoneResult == [kind |-> "none", lines |-> <<>>, error |-> ""]
Raised(error) == [kind |-> "raise", lines |-> <<>>, error |-> error]
Content(lines) == [kind |-> "content", lines |-> lines, error |-> ""]

\* open(filepath, 'r', encoding='utf-8') and f.read(): the text, or the
\* exception raised
ReadFile(filepath) ==
    LET n == Stat(filepath)
    IN  CASE n.kind = "enoent" -> Raised("FileNotFoundError")
          [] n.kind = "enotdir" -> Raised("NotADirectoryError")
          [] n.kind = "dir" -> Raised("IsADirectoryError")
          [] n.mode = "noread" -> Raised("PermissionError")
          [] n.mode = "badutf8" -> Raised("UnicodeDecodeError")
          [] OTHER -> Content(n.lines)

\* a plausible slip: the prefix test without the separator
WithinBaseNoSep(real_path, real_base) == StartsWith(real_path, real_base)

\* line 213: the resolved path is the resolved base or lies below it
WithinBase(real_path, real_base) ==
    StartsWith(real_path, real_base \o "/") \/ real_path = real_base

\* load_file(dir_key, filename): the file's text, None, or an exception
LoadFile(dir_key, filename) ==
    LET base_dir == PathsGet(dir_key)
        filepath == Join(base_dir, filename)
        got == ReadFile(filepath)
    IN  IF ~Truthy(base_dir) THEN NoneResult
        ELSE IF Contains(filename, "..") THEN NoneResult
        ELSE IF ~WithinBase(RealPath(filepath), RealPath(base_dir)) THEN NoneResult
        ELSE IF got.kind = "raise" /\ got.error = "FileNotFoundError" THEN NoneResult
        ELSE got

\* the directories and files every tree of this family holds
LoadFixedNodes ==
    {DirNode("", "app"), DirNode("/app", "docs"), DirNode("/app/docs", "sub"),
     FileNode("/app/docs/sub", "b.md", <<"# B">>),
     DirNode("/app", "docs-private"),
     FileNode("/app/docs-private", "x.md", <<"# Private">>),
     FileNode("/app", "secret.md", <<"# App secret">>),
     DirNode("", "etc"), FileNode("/etc", "secret.md", <<"# Etc secret">>),
     DirNode("", "srv"), LinkNode("/srv", "docs", "/app/docs")}

\* the entries a tree of this family may hold: files, and links out of the
\* directory, into it and to a sibling directory
LoadOptionalNodes ==
    {FileNode("/app/docs", "a.md", <<"# A">>),
     FileNode("/app/docs", "v1..2.md", <<"# V">>),
     LinkNode("/app/docs", "out.md", "/etc/secret.md"),
     LinkNode("/app/docs", "ext", "/etc"),
     LinkNode("/app/docs", "peer.md", "../docs-private/x.md"),
     LinkNode("/app/docs", "in.md", "sub/b.md")}

LoadRegistry == [DOCS_DIR |-> "/app/docs", LINKED_DIR |-> "/srv/docs"]

LoadKeys == {"DOCS_DIR", "LINKED_DIR", "NO_DIR"}

\* the names asked for
LoadNames ==
    {"a.md", "sub/b.md", "missing.md", "", "sub", "a.md/x", "v1..2.md",
     "../secret.md", "sub/../a.md", "../docs-private/x.md", "..",
     "out.md", "ext/secret.md", "peer.md", "in.md", "/etc/secret.md"}

LoadInit ==
    /\ \E opt \in SUBSET LoadOptionalNodes : fs = MkFs(LoadFixedNodes \cup opt)
    /\ lsRank = 1
    /\ registry = LoadRegistry
    /\ pathGlobals = InitializedAt("/app")
    /\ call = [op |-> "none"]
    /\ ret = NoneResult
    /\ IconIdle /\ HashIdle

LoadFileCall(dir_key, filename) ==
    /\ call' = [op |-> "load_file", dir_key |-> dir_key, filename |-> filename]
    /\ ret' = LoadFile(dir_key, filename)
    /\ UNCHANGED <<fs, lsRank, registry, pathGlobals, iconVars, hashVars>>

LoadNext == \E k \in LoadKeys, f \in LoadNames : LoadFileCall(k, f)

SpecLoad == LoadInit /\ [][LoadNext]_vars

(***************************************************************************)
(* Properties of load_file, checked under SpecLoad                         *)
(***************************************************************************)
\* the components of the real path of p
RealComponents(p) == JoinRealPath(<<>>, Split(p), Cardinality(DOMAIN fs))

\* the entry the request names lies in or below the registered directory,
\* component by component, once links are resolved
RequestInsideBase ==
    LET base == registry[call.dir_key]
        rb == RealComponents(base)
        rp == RealComponents(Join(base, call.filename))
    IN  Len(rb) <= Len(rp) /\ SubSeq(rp, 1, Len(rb)) = rb

\* C1: load_file returns None for every filename that contains '..', and
\* returns a text only when the real path of the joined file is the real path
\* of the registered directory or lies below it; the text is that file's.
C1_NoTraversal ==
    call.op = "load_file" =>
        /\ Contains(call.filename, "..") => ret.kind = "none"
        /\ ret.kind = "content" =>
              /\ call.dir_key \in DOMAIN registry
              /\ RequestInsideBase
              /\ ret.lines =
                    fs[PathStr(RealComponents(Join(registry[call.dir_key],
                                                   call.filename)))].lines

\* a file exists at the naively joined location of a name with '..'
C1_Witness ==
    /\ call.op = "load_file"
    /\ call.dir_key = "DOCS_DIR"
    /\ call.filename = "../secret.md"
    /\ IsFile(Join(registry[call.dir_key], call.filename))
    /\ ret.kind = "none"

\* C16: load_file never raises: for every key and filename it returns the
\* file's content or None, also when the key is not registered, the file is
\* missing, the name designates a directory (the empty filename) or the file
\* cannot be read or decoded
C16_NeverRaises ==
    call.op = "load_file" => ret.kind \in {"content", "none"}

(***************************************************************************)
(* docs_viewer.py: extract_title_and_description                           *)
(***************************************************************************)
\* line 276: a sentence end counts only at an index above this one (from 0)
MinSentenceIndex == 10

\* line 259: the code-fence marker. A grave accent cannot be written in a
\* string here, so the model's texts write "~" for it
Fence == "~~~"

\* ' '.join(desc_lines)
RECURSIVE JoinSpaceUpTo(_, _)
JoinSpaceUpTo(parts, n) ==
    IF n = 0 THEN ""
    ELSE IF n = 1 THEN parts[1]
    ELSE JoinSpaceUpTo(parts, n - 1) \o " " \o parts[n]

JoinSpace(parts) == CHOOSE r \in {JoinSpaceUpTo(x, Len(x)) : x \in {parts}} : TRUE

\* lines 275-280: the loop over the characters of text from index i (from 0)
\* on: the text up to the first '.', '!' or '?' at an index above the given
\* one that ends the text or has ' ' or '\n' behind it; None without one.
\* The character at index i is Ch(text, i + 1)
RECURSIVE SentenceFrom(_, _, _)
SentenceFrom(text, i, above) ==
    IF i >= Len(text) THEN None
    ELSE IF /\ Ch(text, i + 1) \in {".", "!", "?"}
            /\ i > above
            /\ (i + 1 >= Len(text) \/ Ch(text, i + 2) \in {" ", "\n"})
    THEN SubSeq(text, 1, i + 1)
    ELSE SentenceFrom(text, i + 1, above)

\* a plausible slip: the sentence may end at the index itself
FirstSentenceInclusive(combined) ==
    CHOOSE d \in {SentenceFrom(text, 0, MinSentenceIndex - 1) : text \in {combined}} : TRUE

\* lines 275-280 for the joined text
FirstSentence(combined) ==
    CHOOSE d \in {SentenceFrom(text, 0, MinSentenceIndex) : text \in {combined}} : TRUE

\* a plausible slip: no line is taken for a list item or a table row
IsListLikeNever(stripped) == FALSE

\* line 263: the line looks like a table row or a list item
IsListLike(stripped) ==
    StartsWith(stripped, "|") \/ StartsWith(stripped, "-") \/ StartsWith(stripped, "*")

\* lines 243-282: the loop over the file's lines from line i on, with the
\* loop's variables; the result is [title, description] (title None: no H1)
RECURSIVE ScanLines(_, _, _, _, _)
ScanLines(lines, i, title, found_title, desc_lines) ==
    IF i > Len(lines) THEN [title |-> title, description |-> None]
    ELSE LET line == lines[i]
             stripped == Strip(line)
             collected == IF stripped # "" THEN Append(desc_lines, stripped)
                          ELSE desc_lines
             description == FirstSentence(JoinSpace(collected))
         IN  IF ~found_title /\ StartsWith(line, "# ")
             THEN ScanLines(lines, i + 1, Strip(SubSeq(line, 3, Len(line))), TRUE,
                            desc_lines)
             ELSE IF ~found_title
             THEN ScanLines(lines, i + 1, title, found_title, desc_lines)
             ELSE IF stripped = "" /\ desc_lines = <<>>
             THEN ScanLines(lines, i + 1, title, found_title, desc_lines)
             ELSE IF \/ StartsWith(stripped, "#")
                     \/ StartsWith(stripped, Fence)
                     \/ StartsWith(stripped, "---")
             THEN [title |-> title, description |-> None]
             ELSE IF IsListLike(stripped)
             THEN (IF desc_lines = <<>>
                   THEN ScanLines(lines, i + 1, title, found_title, desc_lines)
                   ELSE [title |-> title, description |-> None])
             ELSE IF Truthy(description)
             THEN [title |-> title, description |-> description]
             ELSE ScanLines(lines, i + 1, title, found_title, collected)

\* os.path.basename
BaseName(p) == LET parts == Split(p) IN parts[Len(parts)]

\* lines 288-290: the title made from the file name
FallbackTitle(filepath) ==
    Title(Replace(Replace(Replace(BaseName(filepath), ".md", ""), "-", " "), "_", " "))

\* the values returned for the lines scanned (lines 287-292): the title made
\* from the file name takes the place of a missing or empty one
Extracted(filepath, scanned) ==
    [kind |-> "ok",
     title |-> IF Truthy(scanned.title) THEN scanned.title ELSE FallbackTitle(filepath),
     description |-> scanned.description]

\* lines 237-285: what the try block leaves for the file read
Scanned(got) ==
    IF got.kind = "content" THEN ScanLines(got.lines, 1, None, FALSE, <<>>)
    ELSE [title |-> None, description |-> None]

\* extract_title_and_description(filepath): [kind, title, description], kind
\* "ok", or "raise" when an exception leaves the function (only
\* FileNotFoundError and IOError are caught)
ExtractTitleAndDescription(filepath) ==
    CHOOSE r \in {IF got.kind = "raise" /\ got.error = "UnicodeDecodeError"
                  THEN [kind |-> "raise", title |-> None, description |-> None]
                  ELSE CHOOSE e \in {Extracted(filepath, scanned) :
                                       scanned \in {Scanned(got)}} : TRUE :
                  got \in {ReadFile(filepath)}} : TRUE

\* the most lines a file of this family has
MaxLines == 3

\* the lines the files of this family are made of
LinePool ==
    {"# Title", "# ", "## Sub", "", "---",
     "Some sentence. More.",
     "Hello worl. More text here.",
     "Options are e.g.this one. Done",
     "Tabs end here.\tNext part. Done",
     "- item one is listed here.",
     "| a table row. |",
     "~~~ fenced code.",
     "Short!",
     "No end"}

RECURSIVE SeqsUpTo(_, _)
SeqsUpTo(S, n) ==
    IF n = 0 THEN {<<>>}
    ELSE LET shorter == SeqsUpTo(S, n - 1)
         IN  shorter \cup {Append(q, x) : q \in {r \in shorter : Len(r) = n - 1}, x \in S}

ExtractNames == {"index.md", "user-guide_v2.md", "a.mdx.md"}

ExtractInit ==
    /\ \E name \in ExtractNames, lines \in SeqsUpTo(LinePool, MaxLines) :
          fs = MkFs({DirNode("", "app"), DirNode("/app", "docs"),
                     FileNode("/app/docs", name, lines)})
    /\ lsRank = 1
    /\ registry = [DOCS_DIR |-> "/app/docs"]
    /\ pathGlobals = InitializedAt("/app")
    /\ call = [op |-> "none"]
    /\ ret = NoneResult
    /\ IconIdle /\ HashIdle

ExtractCall(filepath) ==
    /\ call.op = "none"
    /\ fs[filepath].kind = "file"
    /\ call' = [op |-> "extract", filepath |-> filepath]
    /\ ret' = ExtractTitleAndDescription(filepath)
    /\ UNCHANGED <<fs, lsRank, registry, pathGlobals, iconVars, hashVars>>

ExtractNext == \E filepath \in DOMAIN fs : ExtractCall(filepath)

SpecExtract == ExtractInit /\ [][ExtractNext]_vars

(***************************************************************************)
(* extract_title_and_description on files that are empty, missing or cannot *)
(* be read                                                                 *)
(***************************************************************************)
\* the lines the files of this family are made of
FaultLinePool == {"# Title", "Some sentence. More.", "", "No end"}

\* the most lines a file of this family has
MaxFaultLines == 2

\* what reading the file does
FileModes == {"ok", "noread", "badutf8"}

\* the paths asked for besides the file's: a missing file, a directory, a
\* path below a regular file
OtherPaths == {"/app/docs/missing.md", "/app/docs", "/app/docs/index.md/x.md"}

ExtractFaultInit ==
    /\ \E name \in ExtractNames, lines \in SeqsUpTo(FaultLinePool, MaxFaultLines),
          mode \in FileModes :
          fs = MkFs({DirNode("", "app"), DirNode("/app", "docs"),
                     [FileNode("/app/docs", name, lines) EXCEPT !.mode = mode]})
    /\ lsRank = 1
    /\ registry = [DOCS_DIR |-> "/app/docs"]
    /\ pathGlobals = InitializedAt("/app")
    /\ call = [op |-> "none"]
    /\ ret = NoneResult
    /\ IconIdle /\ HashIdle

\* extract_title_and_description(filepath) on any path
ExtractAnyCall(filepath) ==
    /\ call.op = "none"
    /\ call' = [op |-> "extract", filepath |-> filepath]
    /\ ret' = ExtractTitleAndDescription(filepath)
    /\ UNCHANGED <<fs, lsRank, registry, pathGlobals, iconVars, hashVars>>

ExtractFaultNext ==
    \E filepath \in {p \in DOMAIN fs : fs[p].kind = "file"} \cup OtherPaths :
        ExtractAnyCall(filepath)

SpecExtractFaults == ExtractFaultInit /\ [][ExtractFaultNext]_vars

\* the path called is an empty file, or no text can be read from it
EmptyOrUnreadable ==
    LET got == ReadFile(call.filepath)
    IN  got.kind = "raise" \/ got.lines = <<>>

\* C17: extract_title_and_description lets no exception surface: for an empty
\* file it returns the title made from the file name and no description, and
\* for a file that is missing or cannot be read or decoded it returns the same
\* instead of raising
C17_NoExceptionSurfaces ==
    call.op = "extract" =>
        /\ ret.kind = "ok"
        /\ EmptyOrUnreadable =>
              ret.title = FallbackTitle(call.filepath) /\ ret.description = None

\* ---- the file the call was made on, as the description rules see it ----
CalledLines == fs[call.filepath].lines

\* the position of the first H1 line, 0 without one
H1Index ==
    LET hs == {i \in 1..Len(CalledLines) : StartsWith(CalledLines[i], "# ")}
    IN  IF hs = {} THEN 0 ELSE CHOOSE i \in hs : \A k \in hs : i <= k

\* the T of the first H1 line '# T'
H1Text == Strip(SubSeq(CalledLines[H1Index], 3, Len(CalledLines[H1Index])))

StopLine(i) ==
    LET t == Strip(CalledLines[i])
    IN  StartsWith(t, "#") \/ StartsWith(t, Fence) \/ StartsWith(t, "---")

ListLine(i) ==
    LET t == Strip(CalledLines[i])
    IN  /\ ~StopLine(i)
        /\ StartsWith(t, "|") \/ StartsWith(t, "-") \/ StartsWith(t, "*")

TextLine(i) == Strip(CalledLines[i]) # "" /\ ~StopLine(i) /\ ~ListLine(i)

\* the first line after the title line that ends the collection
CollectEnd ==
    LET ends == {i \in (H1Index + 1)..Len(CalledLines) :
                    \/ StopLine(i)
                    \/ ListLine(i) /\ \E k \in (H1Index + 1)..(i - 1) : TextLine(k)}
    IN  IF ends = {} THEN Len(CalledLines) + 1
        ELSE CHOOSE i \in ends : \A k \in ends : i <= k

RECURSIVE JoinedFrom(_)
JoinedFrom(i) ==
    IF i >= CollectEnd THEN <<>>
    ELSE IF TextLine(i) THEN <<Strip(CalledLines[i])>> \o JoinedFrom(i + 1)
    ELSE JoinedFrom(i + 1)

\* the space-joined text that follows the title line
JoinedText == JoinSpace(JoinedFrom(H1Index + 1))

\* the prefix of text ending at the first '.', '!' or '?' at position from
\* (counted from 1) or later that ends the text or has one of behind it
PrefixToTerminator(text, from, behind) ==
    LET ends == {j \in from..Len(text) :
                    /\ Ch(text, j) \in {".", "!", "?"}
                    /\ (j = Len(text) \/ Ch(text, j + 1) \in behind)}
    IN  IF ends = {} THEN None
        ELSE SubSeq(text, 1, CHOOSE j \in ends : \A k \in ends : j <= k)

\* C9 as the specification words it: the title is T, and the sentence may end
\* at the 11th character, before any white space
C9_AsStated ==
    (call.op = "extract" /\ H1Index > 0) =>
        /\ ret.kind = "ok"
        /\ ret.title = H1Text
        /\ ret.description = PrefixToTerminator(JoinedText, 11, {" ", "\t", "\n"})

\* C9: for a file whose first H1 line is '# T', extract_title_and_description
\* returns the title T (the title made from the file name when T is empty)
\* and a description equal to the prefix of the space-joined following text
\* that ends at the first '.', '!' or '?' which is the last character of that
\* text or is followed by a space, and which occurs at or after the 12th
\* character; no description when there is no such character
C9_TitleAndFirstSentence ==
    (call.op = "extract" /\ H1Index > 0) =>
        /\ ret.kind = "ok"
        /\ ret.title = IF H1Text = "" THEN FallbackTitle(call.filepath) ELSE H1Text
        /\ ret.description = PrefixToTerminator(JoinedText, 12, {" "})

\* the specification's example: '# Title' followed by 'Some sentence. More.'
C9_Witness ==
    /\ call.op = "extract"
    /\ CalledLines = <<"# Title", "Some sentence. More.">>
    /\ ret.title = "Title"
    /\ ret.description = "Some sentence."

StripExtension(name) ==
    LET dots == {j \in 2..Len(name) : Ch(name, j) = "."}
    IN  IF dots = {} THEN name
        ELSE SubSeq(name, 1, (CHOOSE j \in dots : \A k \in dots : k <= j) - 1)

\* C10: for every file that contains no H1 line, extract_title_and_description
\* returns no description and a title equal to the file name with its
\* extension stripped, '-' and '_' replaced by spaces, and title-cased
C10_FallbackTitle ==
    (call.op = "extract" /\ H1Index = 0) =>
        /\ ret.kind = "ok"
        /\ ret.description = None
        /\ ret.title = Title(Replace(Replace(StripExtension(BaseName(call.filepath)),
                                             "-", " "), "_", " "))

(***************************************************************************)
(* docs_viewer.py: auto_discover_sections.  A section definition is the    *)
(* pair <<section_path, section_name>>.  The numbers of a sort key are     *)
(* written as their digits.                                                *)
(***************************************************************************)
\* lines 67-74
known_order ==
    [k \in {None, "requirements", "platform", "implementation", "deployment",
            "development"} |->
        CASE k = None -> <<"0", "0">>
          [] k = "requirements" -> <<"1", "0">>
          [] k = "platform" -> <<"2", "0">>
          [] k = "implementation" -> <<"3", "0">>
          [] k = "deployment" -> <<"4", "0">>
          [] OTHER -> <<"5", "0">>]

\* a plausible slip: every section is ordered by its path alone
sort_key_by_path(path) == <<"99", IF path = None THEN "" ELSE path>>

\* a plausible slip: the sections nested under one known parent ordered by
\* their paths
sort_key_children_by_path(path) ==
    IF path \in DOMAIN known_order THEN known_order[path]
    ELSE IF Truthy(path) /\ Contains(path, "/") /\ Split(path)[1] \in DOMAIN known_order
    THEN <<known_order[Split(path)[1]][1], "1", path>>
    ELSE <<"99", path>>

\* lines 127-138
sort_key(path) ==
    IF path \in DOMAIN known_order THEN known_order[path]
    ELSE IF Truthy(path) /\ Contains(path, "/") /\ Split(path)[1] \in DOMAIN known_order
    THEN <<known_order[Split(path)[1]][1], "1">>
    ELSE <<"99", path>>

\* lines 111-112 (and 80-83): the directory holds a Markdown file
HasMd(dir) ==
    LET names == ListDir(dir)
    IN  \E k \in 1..Len(names) : EndsWith(names[k], ".md") /\ IsFile(Join(dir, names[k]))

\* line 118
DisplayName(item) == Title(Replace(Replace(item, "-", " "), "_", " "))

\* a plausible slip: the depth limit taken one level too far
BeyondDepthOffByOne(depth, max_depth) == depth > max_depth + 1

\* line 89
BeyondDepth(depth, max_depth) == depth > max_depth

\* lines 87-122: scan_dir(rel_path, depth), as the definitions it appends;
\* ScanItems is its loop over the listing from item i on
RECURSIVE ScanDir(_, _, _, _, _)
RECURSIVE ScanItems(_, _, _, _, _, _, _)
ScanItems(items, i, base_dir, rel_path, depth, max_depth, exclude_set) ==
    IF i > Len(items) THEN <<>>
    ELSE LET item == items[i]
             full_path == IF rel_path # "" THEN Join(base_dir, rel_path) ELSE base_dir
             item_rel_path == IF rel_path # "" THEN Join(rel_path, item) ELSE item
             item_full_path == Join(full_path, item)
             rest == ScanItems(items, i + 1, base_dir, rel_path, depth, max_depth,
                               exclude_set)
         IN  IF \/ StartsWith(item, ".")
                \/ item \in exclude_set
                \/ ~IsDir(item_full_path)
             THEN rest
             ELSE (IF HasMd(item_full_path)
                   THEN <<<<item_rel_path, DisplayName(item)>>>> ELSE <<>>)
                  \o ScanDir(base_dir, item_rel_path, depth + 1, max_depth, exclude_set)
                  \o rest

ScanDir(base_dir, rel_path, depth, max_depth, exclude_set) ==
    LET full_path == IF rel_path # "" THEN Join(base_dir, rel_path) ELSE base_dir
    IN  IF BeyondDepth(depth, max_depth) \/ ~IsDir(full_path) THEN <<>>
        ELSE ScanItems(ListDir(full_path), 1, base_dir, rel_path, depth, max_depth,
                       exclude_set)

\* auto_discover_sections(dir_key, include_root, max_depth, exclude); exclude
\* is given as the set the code makes of it (None and [] both give {})
AutoDiscoverSections(dir_key, include_root, max_depth, exclude_set) ==
    LET base_dir == PathsGet(dir_key)
    IN  IF ~Truthy(base_dir) \/ ~IsDir(base_dir)
        THEN (IF include_root THEN <<<<None, "Overview">>>> ELSE <<>>)
        ELSE CHOOSE r \in
               {StableSortByKey(discovered,
                                [k \in 1..Len(discovered) |-> sort_key(discovered[k][1])]) :
                discovered \in
                  {(IF include_root /\ HasMd(base_dir) THEN <<<<None, "Overview">>>>
                    ELSE <<>>)
                   \o ScanDir(base_dir, "", 1, max_depth, exclude_set)}} : TRUE

\* the largest max_depth a call is made with
MaxDepthArg == 2

DocsDir == "/app/docs"

\* the relative path of a sequence of components
RECURSIVE RelPath(_)
RelPath(comps) ==
    IF comps = <<>> THEN ""
    ELSE IF Len(comps) = 1 THEN comps[1]
    ELSE RelPath(SubSeq(comps, 1, Len(comps) - 1)) \o "/" \o comps[Len(comps)]

DiscoverFixedNodes == {DirNode("", "app"), DirNode("/app", "docs")}

\* a directory below the docs directory (rel its path there) with one file
DocsDirWithFile(rel, file) ==
    LET comps == Split(rel)
        dirs == {DirNode(IF k = 1 THEN DocsDir
                         ELSE Join(DocsDir, RelPath(SubSeq(comps, 1, k - 1))),
                         comps[k]) : k \in 1..Len(comps)}
    IN  dirs \cup {FileNode(Join(DocsDir, rel), file, <<>>)}

\* the groups of entries a docs tree of this family has or has not
DiscoverOptionalNodes ==
    {{FileNode(DocsDir, "index.md", <<>>)},
     DocsDirWithFile("requirements", "index.md"),
     DocsDirWithFile("requirements/api", "index.md"),
     DocsDirWithFile("requirements/zeta", "index.md")
        \cup DocsDirWithFile("requirements/api/v2", "index.md"),
     DocsDirWithFile("platform", "index.md"),
     DocsDirWithFile("development", "guide.md"),
     DocsDirWithFile("zzz-custom", "index.md"),
     DocsDirWithFile("user_guide/first-steps", "intro.md"),
     DocsDirWithFile(".hidden", "index.md") \cup DocsDirWithFile("views", "index.md")
        \cup DocsDirWithFile("views/inner", "index.md")
        \cup DocsDirWithFile("platform/views", "index.md")
        \cup DocsDirWithFile("development/tools", "index.md")
        \cup DocsDirWithFile("assets", "logo.svg")
        \cup {FileNode(DocsDir, "notes.txt", <<>>)}}

DiscoverInit ==
    /\ \E opt \in SUBSET DiscoverOptionalNodes :
          fs = MkFs(DiscoverFixedNodes \cup UNION opt)
    /\ lsRank \in 1..3
    /\ registry = [DOCS_DIR |-> DocsDir]
    /\ pathGlobals = InitializedAt("/app")
    /\ call = [op |-> "none"]
    /\ ret = NoneResult
    /\ IconIdle /\ HashIdle

AutoDiscoverCall(dir_key, include_root, max_depth, exclude_set) ==
    /\ call.op = "none"
    /\ call' = [op |-> "auto_discover_sections", dir_key |-> dir_key,
                include_root |-> include_root, max_depth |-> max_depth,
                exclude_set |-> exclude_set]
    /\ ret' = [kind |-> "ok",
               defs |-> AutoDiscoverSections(dir_key, include_root, max_depth,
                                             exclude_set)]
    /\ UNCHANGED <<fs, lsRank, registry, pathGlobals, iconVars, hashVars>>

DiscoverNext ==
    \E dir_key \in {"DOCS_DIR", "NO_DIR"}, include_root \in BOOLEAN,
       max_depth \in 1..MaxDepthArg, exclude_set \in {{}, {"views"}} :
        AutoDiscoverCall(dir_key, include_root, max_depth, exclude_set)

SpecDiscover == DiscoverInit /\ [][DiscoverNext]_vars

\* the canonical order of the known top-level sections
CanonicalOrder ==
    <<None, "requirements", "platform", "implementation", "deployment", "development">>

IsKnownName(path) == \E k \in 1..Len(CanonicalOrder) : CanonicalOrder[k] = path

CanonicalRank(path) == CHOOSE k \in 1..Len(CanonicalOrder) : CanonicalOrder[k] = path

NestedUnderKnown(path) ==
    /\ ~IsKnownName(path)
    /\ Contains(path, "/")
    /\ IsKnownName(Split(path)[1])

\* the known sections of the result stand in the canonical order
KnownInCanonicalOrder ==
    \A a, b \in 1..Len(ret.defs) :
        (a < b /\ IsKnownName(ret.defs[a][1]) /\ IsKnownName(ret.defs[b][1]))
            => CanonicalRank(ret.defs[a][1]) < CanonicalRank(ret.defs[b][1])

\* C8 as the specification words it: every section that is not a known name
\* comes after all known ones
C8_AsStated ==
    call.op = "auto_discover_sections" =>
        /\ KnownInCanonicalOrder
        /\ \A a, b \in 1..Len(ret.defs) :
              (~IsKnownName(ret.defs[a][1]) /\ IsKnownName(ret.defs[b][1])) => b < a

\* C8: auto_discover_sections returns the known top-level sections in the
\* canonical order root, requirements, platform, implementation, deployment,
\* development, whatever the order of the directory listing, and every
\* discovered section that is neither a known name nor nested under a known
\* top-level name comes after all known ones
C8_CanonicalOrder ==
    call.op = "auto_discover_sections" =>
        /\ KnownInCanonicalOrder
        /\ \A a, b \in 1..Len(ret.defs) :
              (/\ ~IsKnownName(ret.defs[a][1])
               /\ ~NestedUnderKnown(ret.defs[a][1])
               /\ IsKnownName(ret.defs[b][1])) => b < a

\* the specification's example, the listing giving platform before requirements
C8_Witness ==
    /\ call.op = "auto_discover_sections"
    /\ \E names \in {ListDir(DocsDir)} : \E i, j \in 1..Len(names) :
          i < j /\ names[i] = "platform" /\ names[j] = "requirements"
    /\ ret.defs = <<<<None, "Overview">>, <<"requirements", "Requirements">>,
                    <<"platform", "Platform">>, <<"zzz-custom", "Zzz Custom">>>>

\* the directory a discovered definition stands for
SectionDir(base_dir, section_path) ==
    IF section_path = None THEN base_dir ELSE Join(base_dir, section_path)

\* the directory exists and directly holds a Markdown file
DirectlyHoldsMd(dir) == Truthy(dir) /\ IsDir(dir) /\ HasMd(dir)

\* C12: auto_discover_sections never returns a section whose directory does
\* not directly hold a Markdown file, also for a root key that is not
\* registered or has no directory; (None, "Overview") is returned only when
\* include_root is true and the root directly holds a Markdown file
C12_OnlyDirsWithMarkdown ==
    call.op = "auto_discover_sections" =>
        \A k \in 1..Len(ret.defs) :
            /\ DirectlyHoldsMd(SectionDir(PathsGet(call.dir_key), ret.defs[k][1]))
            /\ ret.defs[k][1] = None => call.include_root

\* the place of name in the listing of dir (0 when dir does not list it)
ListingIndex(dir, name) ==
    CHOOSE r \in {IF \E k \in 1..Len(names) : names[k] = name
                  THEN CHOOSE k \in 1..Len(names) : names[k] = name
                  ELSE 0 : names \in {ListDir(dir)}} : TRUE

\* the first place where two sequences of components differ (0 when one of
\* them begins the other)
FirstDifference(cp, cq) ==
    IF \E k \in 1..Len(cp) : k <= Len(cq) /\ cp[k] # cq[k]
    THEN CHOOSE k \in 1..Len(cp) :
            /\ k <= Len(cq) /\ cp[k] # cq[k]
            /\ \A j \in 1..(k - 1) : cp[j] = cq[j]
    ELSE 0

\* the walk of scan_dir meets section path p before q: a directory before
\* what lies below it, the entries of one directory in its listing's order
DiscoveredBefore(base_dir, p, q) ==
    \E cp \in {Split(p)}, cq \in {Split(q)} : \E k \in {FirstDifference(cp, cq)} :
        IF k = 0 THEN Len(cp) < Len(cq)
        ELSE \E dir \in {IF k = 1 THEN base_dir
                         ELSE Join(base_dir, RelPath(SubSeq(cp, 1, k - 1)))} :
                ListingIndex(dir, cp[k]) < ListingIndex(dir, cq[k])

\* a nested section whose top-level parent is not a known name
NestedUnderUnknown(path) ==
    /\ path # None
    /\ Contains(path, "/")
    /\ ~IsKnownName(Split(path)[1])

\* a nested section of a known parent stands after the parent and before
\* every later known top-level section
NestedAfterParent ==
    \A a, b \in 1..Len(ret.defs) :
        \E p \in {ret.defs[a][1]}, q \in {ret.defs[b][1]} :
            (NestedUnderKnown(p) /\ IsKnownName(q)) =>
                \E parent \in {Split(p)[1]} :
                    /\ q = parent => b < a
                    /\ CanonicalRank(q) > CanonicalRank(parent) => a < b

\* the nested sections of one known parent stand in their discovery order
ChildrenKeepDiscoveryOrder ==
    \A a, b \in 1..Len(ret.defs) :
        \E p \in {ret.defs[a][1]}, q \in {ret.defs[b][1]} :
            (/\ a < b
             /\ NestedUnderKnown(p) /\ NestedUnderKnown(q)
             /\ Split(p)[1] = Split(q)[1])
                => DiscoveredBefore(PathsGet(call.dir_key), p, q)

\* C21 as the specification words it: the nested sections under unknown
\* parents are the last of the result, ordered by path string
C21_AsStated ==
    call.op = "auto_discover_sections" =>
        /\ NestedAfterParent
        /\ ChildrenKeepDiscoveryOrder
        /\ \A a, b \in 1..Len(ret.defs) :
              \E p \in {ret.defs[a][1]}, q \in {ret.defs[b][1]} :
                  /\ (NestedUnderUnknown(p) /\ ~NestedUnderUnknown(q)) => b < a
                  /\ (a < b /\ NestedUnderUnknown(p) /\ NestedUnderUnknown(q))
                        => StrLt(p, q)

\* C21: in the result of auto_discover_sections every nested section whose
\* top-level parent is a known name comes after that parent and before the
\* next known top-level section, the nested sections of one parent keep
\* their discovery order, and the nested sections under unknown parents come
\* after every known section and every section nested under a known one, in
\* one group with the unknown top-level sections, the group ordered by path
\* string
C21_NestedOrder ==
    call.op = "auto_discover_sections" =>
        /\ NestedAfterParent
        /\ ChildrenKeepDiscoveryOrder
        /\ \A a, b \in 1..Len(ret.defs) :
              \E p \in {ret.defs[a][1]}, q \in {ret.defs[b][1]} :
                  /\ (NestedUnderUnknown(p) /\ (IsKnownName(q) \/ NestedUnderKnown(q)))
                        => b < a
                  /\ (/\ a < b
                      /\ ~IsKnownName(p) /\ ~NestedUnderKnown(p)
                      /\ ~IsKnownName(q) /\ ~NestedUnderKnown(q)) => StrLt(p, q)

\* two sections nested under requirements discovered against the order of
\* their paths, a later known section, and a section nested under an unknown
\* parent together with an unknown top-level section
C21_Witness ==
    /\ call.op = "auto_discover_sections"
    /\ \E a, b, c, d, e \in 1..Len(ret.defs) :
          /\ a < b /\ b < c /\ c < d /\ d < e
          /\ ret.defs[a][1] = "requirements"
          /\ ret.defs[b][1] = "requirements/zeta"
          /\ ret.defs[c][1] = "requirements/api"
          /\ ret.defs[d][1] = "platform"
          /\ ret.defs[e][1] = "user_guide/first-steps"
    /\ \E k \in 1..Len(ret.defs) : ret.defs[k][1] = "zzz-custom"

\* the section paths a call returned
EmittedPaths == {ret.defs[k][1] : k \in 1..Len(ret.defs)} \ {None}

\* the paths, relative to base_dir, of what lies below it
PathsBelow(base_dir) ==
    {SubSeq(p, Len(base_dir) + 2, Len(p)) :
        p \in {q \in DOMAIN fs : StartsWith(q, base_dir \o "/")}}

\* the directory rel of base_dir lies within the depth limit, outside the
\* excluded names, and directly holds a Markdown file
WithinLimits(base_dir, rel, max_depth, exclude_set) ==
    \E comps \in {Split(rel)} :
        /\ Len(comps) <= max_depth
        /\ \A c \in 1..Len(comps) : comps[c] \notin exclude_set
        /\ IsDir(Join(base_dir, rel))
        /\ HasMd(Join(base_dir, rel))

\* no component of rel begins with a dot
NotHidden(rel) ==
    \E comps \in {Split(rel)} : \A c \in 1..Len(comps) : ~StartsWith(comps[c], ".")

\* no emitted path is deeper than max_depth or passes an excluded name
NoneBeyondLimits ==
    \A path \in EmittedPaths : \E comps \in {Split(path)} :
        /\ Len(comps) <= call.max_depth
        /\ \A c \in 1..Len(comps) : comps[c] \notin call.exclude_set

\* the root key names a directory
RootIsDir == \E base_dir \in {PathsGet(call.dir_key)} : Truthy(base_dir) /\ IsDir(base_dir)

\* C23 as the specification words it: every directory within the depth limit
\* that holds Markdown files is emitted
C23_AsStated ==
    (call.op = "auto_discover_sections" /\ RootIsDir) =>
        /\ NoneBeyondLimits
        /\ \A rel \in PathsBelow(PathsGet(call.dir_key)) :
              WithinLimits(PathsGet(call.dir_key), rel, call.max_depth,
                           call.exclude_set) => rel \in EmittedPaths

\* C23: auto_discover_sections emits no section whose path has more than
\* max_depth components and none whose path contains a directory named in
\* exclude or a directory whose name begins with a dot, while every other
\* directory within the depth limit that directly holds Markdown files is
\* emitted, also when its parent holds none or is itself a section
C23_DepthAndExclude ==
    (call.op = "auto_discover_sections" /\ RootIsDir) =>
        /\ NoneBeyondLimits
        /\ \A path \in EmittedPaths : NotHidden(path)
        /\ \A rel \in PathsBelow(PathsGet(call.dir_key)) :
              (/\ NotHidden(rel)
               /\ WithinLimits(PathsGet(call.dir_key), rel, call.max_depth,
                               call.exclude_set)) => rel \in EmittedPaths

\* a call with max_depth 2 and views excluded on a tree with a Markdown
\* directory at depth 3 and below views: requirements/zeta is emitted while
\* requirements holds no Markdown file, development/tools while development
\* is a section
C23_Witness ==
    /\ call.op = "auto_discover_sections"
    /\ call.max_depth = 2 /\ call.exclude_set = {"views"}
    /\ HasMd(Join(DocsDir, "requirements/api/v2"))
    /\ HasMd(Join(DocsDir, "views/inner")) /\ HasMd(Join(DocsDir, "platform/views"))
    /\ ~HasMd(Join(DocsDir, "requirements"))
    /\ {"requirements/zeta", "development", "development/tools"} \subseteq EmittedPaths
    /\ "requirements" \notin EmittedPaths

(***************************************************************************)
(* docs_viewer.py: list_files, get_structure, build_section_from_dir,      *)
(* get_docs_structure.  An entry is [path, title, description, framework]  *)
(* and a section [name, docs, framework]: a key the code leaves out of a   *)
(* dict is None (description) or FALSE (framework) here.                   *)
(***************************************************************************)
\* the names of a listing that end in '.md' and are files of dir
MdFiles(dir, names) ==
    LET IsMd(f) == EndsWith(f, ".md") /\ IsFile(Join(dir, f))
    IN  SelectSeq(names, IsMd)

\* sorted(files): ascending by code point
Sorted(names) == StableSortByKey(names, [k \in 1..Len(names) |-> <<names[k]>>])

\* list_files(dir_key)
ListFiles(dir_key) ==
    LET base_dir == PathsGet(dir_key)
    IN  IF ~Truthy(base_dir) \/ ~IsDir(base_dir) THEN <<>>
        ELSE Sorted(MdFiles(base_dir, ListDir(base_dir)))

\* lines 368-375 (and 328-336, 434-438): the entry of the file f of dir
DocEntry(dir, f, rel_path, with_description, framework) ==
    CHOOSE e \in {[path |-> rel_path, title |-> td.title,
                   description |-> IF with_description /\ Truthy(td.description)
                                   THEN td.description ELSE None,
                   framework |-> framework] :
                  td \in {ExtractTitleAndDescription(Join(dir, f))}} : TRUE

\* an exception leaves the extraction of a file of dir (a file that cannot be
\* decoded, see ExtractTitleAndDescription)
DirRaises(dir) ==
    /\ IsDir(dir)
    /\ \E names \in {ListDir(dir)} : \E k \in 1..Len(names) :
          /\ EndsWith(names[k], ".md")
          /\ IsFile(Join(dir, names[k]))
          /\ ReadFile(Join(dir, names[k])).error = "UnicodeDecodeError"

StructureRaised == [kind |-> "raise", files |-> <<>>, sections |-> <<>>]

\* line 339
FlatSortKey(d) == <<IF d.path = "index.md" THEN "0" ELSE "1", d.path>>

\* lines 325-339: the entries of the names, sorted
FlatFiles(base_dir, names, include_description) ==
    CHOOSE r \in {StableSortByKey(files, [k \in 1..Len(files) |-> FlatSortKey(files[k])]) :
                  files \in {[k \in 1..Len(names) |->
                                DocEntry(base_dir, names[k], names[k],
                                         include_description, FALSE)]}} : TRUE

\* get_structure(dir_key, include_description)
GetStructure(dir_key, include_description) ==
    LET base_dir == PathsGet(dir_key)
    IN  IF ~Truthy(base_dir) \/ ~IsDir(base_dir)
        THEN [kind |-> "ok", files |-> <<>>, sections |-> <<>>]
        ELSE IF DirRaises(base_dir) THEN StructureRaised
        ELSE [kind |-> "ok",
              files |-> CHOOSE r \in {FlatFiles(base_dir, names, include_description) :
                                      names \in {ListFiles(dir_key)}} : TRUE,
              sections |-> <<>>]

\* build_section_from_dir returned None
NoSection == [name |-> None, docs |-> <<>>, framework |-> FALSE]

\* line 382
SectionSortKey(d) == <<IF EndsWith(d.path, "index.md") THEN "0" ELSE "1", d.path>>

\* lines 363-383: the section of the Markdown files names of scan_dir
SectionOf(scan_dir, names, section_path, section_name) ==
    IF Len(names) = 0 THEN NoSection
    ELSE [name |-> section_name,
          docs |-> CHOOSE r \in
                     {StableSortByKey(docs,
                                      [k \in 1..Len(docs) |-> SectionSortKey(docs[k])]) :
                      docs \in {[k \in 1..Len(names) |->
                                   DocEntry(scan_dir, names[k],
                                            IF Truthy(section_path)
                                            THEN Join(section_path, names[k])
                                            ELSE names[k],
                                            TRUE, FALSE)]}} : TRUE,
          framework |-> FALSE]

\* build_section_from_dir(base_dir, section_path, section_name)
BuildSectionFromDir(base_dir, section_path, section_name) ==
    LET scan_dir == IF Truthy(section_path) THEN Join(base_dir, section_path)
                    ELSE base_dir
    IN  IF ~IsDir(scan_dir) THEN NoSection
        ELSE CHOOSE r \in {SectionOf(scan_dir, names, section_path, section_name) :
                           names \in {MdFiles(scan_dir, ListDir(scan_dir))}} : TRUE

\* lines 459-474: sort_key of build_framework_section
frame_sort_key(d) ==
    LET path == d.path
        is_index == EndsWith(path, "index.md")
        is_root == ~Contains(path, "/")
        subdir == Split(path)[1]
        subdir_order == CASE subdir = "spec" -> "0"
                          [] subdir = "python" -> "1"
                          [] subdir = "js" -> "2"
                          [] OTHER -> "3"
    IN  IF is_root /\ is_index THEN <<"0", "", path>>
        ELSE IF is_root THEN <<"1", "", path>>
        ELSE <<"2", subdir_order, IF is_index THEN "0" ELSE "1", path>>

\* lines 444-453: the entries of the Markdown files of one subdirectory
SubdirDocs(subdir_path, subdir) ==
    CHOOSE r \in {[k \in 1..Len(names) |->
                     DocEntry(subdir_path, names[k], subdir \o "/" \o names[k],
                              TRUE, TRUE)] :
                  names \in {MdFiles(subdir_path, ListDir(subdir_path))}} : TRUE

\* lines 441-453: the entries of the subdirectories of frame_dir, from the
\* listing's item i on
RECURSIVE FrameSubdirDocs(_, _, _)
FrameSubdirDocs(frame_dir, items, i) ==
    IF i > Len(items) THEN <<>>
    ELSE (IF IsDir(Join(frame_dir, items[i])) /\ ~StartsWith(items[i], ".")
          THEN SubdirDocs(Join(frame_dir, items[i]), items[i])
          ELSE <<>>)
         \o FrameSubdirDocs(frame_dir, items, i + 1)

\* lines 427-453: the entries of the framework directory, as they are found
FrameDocs(frame_dir) ==
    CHOOSE r \in {[k \in 1..Len(MdFiles(frame_dir, items)) |->
                     DocEntry(frame_dir, MdFiles(frame_dir, items)[k],
                              MdFiles(frame_dir, items)[k], TRUE, TRUE)]
                  \o FrameSubdirDocs(frame_dir, items, 1) :
                  items \in {ListDir(frame_dir)}} : TRUE

\* lines 455-478: the section of the entries found
FrameSectionOf(docs) ==
    IF Len(docs) = 0 THEN NoSection
    ELSE [name |-> "AIDE Frame",
          docs |-> StableSortByKey(docs, [k \in 1..Len(docs) |-> frame_sort_key(docs[k])]),
          framework |-> TRUE]

\* build_framework_section()
BuildFrameworkSection(framework_dir_key) ==
    LET frame_dir == PathsGet(framework_dir_key)
    IN  IF ~Truthy(framework_dir_key) THEN NoSection
        ELSE IF ~Truthy(frame_dir) \/ ~IsDir(frame_dir) THEN NoSection
        ELSE CHOOSE r \in {FrameSectionOf(docs) : docs \in {FrameDocs(frame_dir)}} : TRUE

\* an exception leaves build_framework_section
FrameRaises(framework_dir_key) ==
    LET frame_dir == PathsGet(framework_dir_key)
    IN  /\ Truthy(framework_dir_key) /\ Truthy(frame_dir) /\ IsDir(frame_dir)
        /\ \/ DirRaises(frame_dir)
           \/ \E items \in {ListDir(frame_dir)} : \E k \in 1..Len(items) :
                 ~StartsWith(items[k], ".") /\ DirRaises(Join(frame_dir, items[k]))

\* a plausible slip: one late section only
late_sections_one == {"deployment"}

\* line 492
late_sections == {"deployment", "development"}

\* a plausible slip: the marker is treated as a directory like any other
IsLegacyMarkerNever(section_path) == FALSE

\* line 496: the legacy marker
IsLegacyMarker(section_path) == section_path = "AIDE_FRAME"

\* a plausible slip: the flag is not consulted at the end
AppendAtEndAlways(frame_section, aide_frame_inserted) == frame_section # NoSection

\* line 510: the framework section is appended after the loop
AppendAtEnd(frame_section, aide_frame_inserted) ==
    frame_section # NoSection /\ ~aide_frame_inserted

\* lines 494-511: the sections appended from definition i on, the framework
\* section at the end if it was not inserted before
RECURSIVE SectionLoop(_, _, _, _, _)
SectionLoop(base_dir, section_defs, i, aide_frame_inserted, frame_section) ==
    IF i > Len(section_defs)
    THEN (IF AppendAtEnd(frame_section, aide_frame_inserted) THEN <<frame_section>>
          ELSE <<>>)
    ELSE IF IsLegacyMarker(section_defs[i][1])
    THEN SectionLoop(base_dir, section_defs, i + 1, aide_frame_inserted, frame_section)
    ELSE CHOOSE r \in
           {(IF insert THEN <<frame_section>> ELSE <<>>)
            \o (IF section # NoSection THEN <<section>> ELSE <<>>)
            \o SectionLoop(base_dir, section_defs, i + 1, aide_frame_inserted \/ insert,
                           frame_section) :
            insert \in {/\ section_defs[i][1] \in late_sections
                        /\ frame_section # NoSection
                        /\ ~aide_frame_inserted},
            section \in {BuildSectionFromDir(base_dir, section_defs[i][1],
                                             section_defs[i][2])}} : TRUE

\* section_defs=None
NoDefs == [given |-> FALSE, defs |-> <<>>]

\* section_defs given as a list
GivenDefs(defs) == [given |-> TRUE, defs |-> defs]

\* an exception leaves the loop over the definitions
RECURSIVE DefsRaise(_, _, _)
DefsRaise(base_dir, section_defs, i) ==
    /\ i <= Len(section_defs)
    /\ \/ /\ ~IsLegacyMarker(section_defs[i][1])
          /\ DirRaises(IF Truthy(section_defs[i][1])
                       THEN Join(base_dir, section_defs[i][1]) ELSE base_dir)
       \/ DefsRaise(base_dir, section_defs, i + 1)

\* lines 480-512: the result for the definitions and the framework section
StructureOf(base_dir, defs, frame_section) ==
    IF ~Truthy(base_dir) \/ ~IsDir(base_dir)
    THEN [kind |-> "ok", files |-> <<>>,
          sections |-> IF frame_section # NoSection THEN <<frame_section>> ELSE <<>>]
    ELSE IF DefsRaise(base_dir, defs, 1) THEN StructureRaised
    ELSE [kind |-> "ok", files |-> <<>>,
          sections |-> SectionLoop(base_dir, defs, 1, FALSE, frame_section)]

\* get_docs_structure(docs_dir_key, framework_dir_key, section_defs,
\* auto_discover, exclude)
GetDocsStructure(docs_dir_key, framework_dir_key, section_defs, auto_discover, exclude_set) ==
    IF FrameRaises(framework_dir_key) THEN StructureRaised
    ELSE CHOOSE r \in
           {StructureOf(base_dir, defs, frame_section) :
            base_dir \in {PathsGet(docs_dir_key)},
            defs \in {IF section_defs.given THEN section_defs.defs
                      ELSE IF auto_discover
                      THEN AutoDiscoverSections(docs_dir_key, TRUE, 2, exclude_set)
                      ELSE <<<<None, "Overview">>>>},
            frame_section \in {BuildFrameworkSection(framework_dir_key)}} : TRUE

FrameDir == "/opt/frame"

StructFixedNodes ==
    {DirNode("", "app"), DirNode("/app", "docs"), DirNode("", "opt"),
     DirNode("/opt", "frame"), FileNode("/app", "up.md", <<"# Above">>),
     DirNode(DocsDir, "development")}

\* a directory dir/name with files of the given names, each with an H1 line
DirWithFiles(dir, name, files) ==
    {DirNode(dir, name)} \cup {FileNode(Join(dir, name), f, <<"# T">>) : f \in files}

\* the groups of entries the docs tree and the framework tree have or have not
StructOptionalNodes ==
    {{FileNode(DocsDir, "index.md", <<"# Home", "Welcome to the docs. More.">>)},
     {FileNode(DocsDir, "reindex.md", <<>>), FileNode(DocsDir, "a.md", <<>>),
      FileNode(DocsDir, "v1..2.md", <<"# Version 1..2">>)}
        \cup DirWithFiles(DocsDir, "AIDE_FRAME", {"x.md"}),
     DirWithFiles(DocsDir, "requirements", {"index.md", "b.md"}),
     DirWithFiles(DocsDir, "deployment", {"index.md"}),
     {FileNode(Join(DocsDir, "development"), "setup.md", <<"# T">>)},
     {FileNode(FrameDir, "index.md", <<>>), FileNode(FrameDir, "zeta.md", <<>>)},
     DirWithFiles(FrameDir, "spec", {"a.md"}) \cup DirWithFiles(FrameDir, "js", {"index.md", "a.md"})
        \cup DirWithFiles(FrameDir, "python", {"b.md"})
        \cup DirWithFiles(FrameDir, "other", {"index.md", "x.md"})
        \cup DirWithFiles(FrameDir, "tools", {"index.md"})
        \cup DirWithFiles(FrameDir, ".git", {"x.md"})}

\* the explicit definition lists a call is made with
DefLists ==
    {<<<<None, "Overview">>, <<"requirements", "Requirements">>,
       <<"deployment", "Deployment">>, <<"development", "Development">>>>,
     <<<<None, "Overview">>, <<"AIDE_FRAME", "AIDE Frame">>,
       <<"requirements", "Requirements">>>>,
     <<<<"requirements", "Requirements">>, <<"AIDE_FRAME", "AIDE Frame">>,
       <<"development", "Development">>, <<"deployment", "Deployment">>>>,
     <<<<"deployment", "Deployment">>, <<None, "Overview">>>>,
     <<<<"development", "Development">>, <<"deployment", "Deployment">>,
       <<"development", "Development again">>>>,
     <<<<"missing", "Missing">>, <<None, "Overview">>>>,
     <<<<"..", "Up">>, <<"requirements", "Requirements">>>>,
     <<>>}

StructInit ==
    /\ \E opt \in SUBSET StructOptionalNodes : fs = MkFs(StructFixedNodes \cup UNION opt)
    /\ lsRank \in 1..2
    /\ registry = [DOCS_DIR |-> DocsDir, FRAME_DIR |-> FrameDir]
    /\ pathGlobals = InitializedAt("/app")
    /\ call = [op |-> "none"]
    /\ ret = NoneResult
    /\ IconIdle /\ HashIdle

GetStructureCall(dir_key, include_description) ==
    /\ call.op = "none"
    /\ call' = [op |-> "get_structure", dir_key |-> dir_key,
                include_description |-> include_description]
    /\ ret' = GetStructure(dir_key, include_description)
    /\ UNCHANGED <<fs, lsRank, registry, pathGlobals, iconVars, hashVars>>

GetDocsStructureCall(docs_dir_key, framework_dir_key, section_defs, auto_discover) ==
    /\ call.op = "none"
    /\ call' = [op |-> "get_docs_structure", docs_dir_key |-> docs_dir_key,
                framework_dir_key |-> framework_dir_key,
                section_defs |-> section_defs, auto_discover |-> auto_discover]
    /\ ret' = GetDocsStructure(docs_dir_key, framework_dir_key, section_defs,
                               auto_discover, {})
    /\ UNCHANGED <<fs, lsRank, registry, pathGlobals, iconVars, hashVars>>

StructNext ==
    \/ \E dir_key \in {"DOCS_DIR", "NO_DIR"}, include_description \in BOOLEAN :
          GetStructureCall(dir_key, include_description)
    \/ \E docs_dir_key \in {"DOCS_DIR", "NO_DIR"}, framework_dir_key \in {None, "FRAME_DIR"},
          defs \in DefLists :
          GetDocsStructureCall(docs_dir_key, framework_dir_key, GivenDefs(defs), TRUE)
    \/ \E docs_dir_key \in {"DOCS_DIR", "NO_DIR"}, framework_dir_key \in {None, "FRAME_DIR"},
          auto_discover \in BOOLEAN :
          GetDocsStructureCall(docs_dir_key, framework_dir_key, NoDefs, auto_discover)

SpecStruct == StructInit /\ [][StructNext]_vars

\* every entry of the structure returned, flat or in sections
EmittedDocs ==
    {ret.files[k] : k \in 1..Len(ret.files)}
    \cup UNION {{ret.sections[s].docs[k] : k \in 1..Len(ret.sections[s].docs)} :
                s \in 1..Len(ret.sections)}

\* the directory of the root an entry of the latest call belongs to
RootDirOf(d) ==
    IF call.op = "get_structure" THEN PathsGet(call.dir_key)
    ELSE IF d.framework THEN PathsGet(call.framework_dir_key)
    ELSE PathsGet(call.docs_dir_key)

\* C13: every document path get_structure and get_docs_structure emit, for
\* discovered and for caller-supplied definitions, is separated by forward
\* slashes and, resolved against the directory of its root, stays within it
C13_PathsStayInBase ==
    (call.op \in {"get_structure", "get_docs_structure"} /\ ret.kind = "ok") =>
        \A d \in EmittedDocs :
            /\ ~Contains(d.path, "\\")
            /\ \E base \in {RootDirOf(d)} :
                  WithinBase(RealPath(Join(base, d.path)), RealPath(base))

\* the key load_file is given for an entry of the latest call
LoadKeyOf ==
    IF call.op = "get_structure" THEN call.dir_key ELSE call.docs_dir_key

\* C26: for every document entry get_structure or a non-framework section of
\* get_docs_structure lists, load_file with the same key and the entry's path
\* returns the content of that file, whatever the file is named
C26_ListedLoads ==
    (call.op \in {"get_structure", "get_docs_structure"} /\ ret.kind = "ok") =>
        \A d \in EmittedDocs :
            ~d.framework =>
                \E got \in {LoadFile(LoadKeyOf, d.path)} :
                    /\ got.kind = "content"
                    /\ got = ReadFile(Join(PathsGet(LoadKeyOf), d.path))

\* the entries of docs from position from on stand in ascending order of path
AscendingFrom(docs, from) ==
    \A a, b \in from..Len(docs) : a < b => StrLt(docs[a].path, docs[b].path)

\* path counts as an index entry: named index.md or, in a section, also
\* ending in it
IsIndexEntry(path, in_section) ==
    path = "index.md" \/ (in_section /\ EndsWith(path, "index.md"))

\* an index entry, if there is one, is first, and the rest is ascending
IndexFirstThenAscending(docs, in_section) ==
    IF \E k \in 1..Len(docs) : IsIndexEntry(docs[k].path, in_section)
    THEN IsIndexEntry(docs[1].path, in_section) /\ AscendingFrom(docs, 2)
    ELSE AscendingFrom(docs, 1)

\* C5: in the flat list of get_structure and in every section built from a
\* directory by get_docs_structure, an entry named index.md (in a section:
\* the entry whose path is or ends in index.md) is the first entry whenever
\* it is present, and all remaining entries follow in ascending order of path
C5_IndexFirst ==
    /\ call.op = "get_structure" => IndexFirstThenAscending(ret.files, FALSE)
    /\ call.op = "get_docs_structure" =>
          \A k \in 1..Len(ret.sections) :
              ~ret.sections[k].framework =>
                  IndexFirstThenAscending(ret.sections[k].docs, TRUE)

\* the definitions that do not carry the legacy sentinel path
WithoutSentinel(defs) ==
    LET Kept(d) == d[1] # "AIDE_FRAME"
    IN  SelectSeq(defs, Kept)

\* the sections the definitions give, in their order, the empty ones dropped
BuiltFrom(docs_dir_key, defs) ==
    LET base_dir == PathsGet(docs_dir_key)
        all == [k \in 1..Len(defs) |->
                   BuildSectionFromDir(base_dir, defs[k][1], defs[k][2])]
        Built(section) == section # NoSection
    IN  IF Truthy(base_dir) /\ IsDir(base_dir) THEN SelectSeq(all, Built) ELSE <<>>

NonFramework(sections) ==
    LET Own(section) == ~section.framework
    IN  SelectSeq(sections, Own)

\* C6: with an explicit definition list the non-framework sections of the
\* output are exactly the sections built from the definitions, in definition
\* order, empty ones dropped and entries with the sentinel path "AIDE_FRAME"
\* skipped: the output equals that for the list without the sentinel entries
C6_ExplicitDefinitions ==
    (call.op = "get_docs_structure" /\ call.section_defs.given) =>
        /\ ret.kind = "ok"
        /\ NonFramework(ret.sections)
             = BuiltFrom(call.docs_dir_key, WithoutSentinel(call.section_defs.defs))
        /\ ret = GetDocsStructure(call.docs_dir_key, call.framework_dir_key,
                                  GivenDefs(WithoutSentinel(call.section_defs.defs)),
                                  call.auto_discover, {})

\* a list with the sentinel is used on a tree that has a directory of that
\* name holding a Markdown file
C6_Witness ==
    /\ call.op = "get_docs_structure"
    /\ call.section_defs.given
    /\ call.docs_dir_key = "DOCS_DIR"
    /\ \E k \in 1..Len(call.section_defs.defs) : call.section_defs.defs[k][1] = "AIDE_FRAME"
    /\ HasMd(Join(DocsDir, "AIDE_FRAME"))
    /\ Len(NonFramework(ret.sections)) = 2
    /\ \A k \in 1..Len(ret.sections) : ret.sections[k].name # "AIDE Frame"

\* the definition list a call works with
EffectiveDefs ==
    IF call.section_defs.given THEN call.section_defs.defs
    ELSE IF call.auto_discover THEN AutoDiscoverSections(call.docs_dir_key, TRUE, 2, {})
    ELSE <<<<None, "Overview">>>>

\* the position of the first definition named deployment or development,
\* one past the end of the list when there is none
FirstLate ==
    LET late == {k \in 1..Len(EffectiveDefs) :
                    EffectiveDefs[k][1] \in {"deployment", "development"}}
    IN  IF late = {} THEN Len(EffectiveDefs) + 1
        ELSE CHOOSE k \in late : \A j \in late : k <= j

\* C7: a non-empty framework section stands immediately before the section
\* of the first definition named deployment or development (after every
\* section built from an earlier definition, before any built from that
\* definition or a later one), and is the last section when the definition
\* list has neither name
C7_FrameworkPlacement ==
    LET frame == BuildFrameworkSection(call.framework_dir_key)
        defs == EffectiveDefs
        late == FirstLate
    IN  (call.op = "get_docs_structure" /\ frame # NoSection) =>
            /\ ret.kind = "ok"
            /\ ret.sections =
                  BuiltFrom(call.docs_dir_key, WithoutSentinel(SubSeq(defs, 1, late - 1)))
                  \o <<frame>>
                  \o BuiltFrom(call.docs_dir_key,
                               WithoutSentinel(SubSeq(defs, late, Len(defs))))

\* development is defined before deployment, and the framework section comes
\* between requirements and development
C7_Witness ==
    /\ call.op = "get_docs_structure"
    /\ call.section_defs.given
    /\ Len(ret.sections) = 4
    /\ ret.sections[1].name = "Requirements"
    /\ ret.sections[2].framework
    /\ ret.sections[3].name = "Development"
    /\ ret.sections[4].name = "Deployment"

\* the framework sections of the structure returned
FrameworkSections == {s \in 1..Len(ret.sections) : ret.sections[s].framework}

\* the directory registered under framework_dir_key holds a Markdown file at
\* its root or in a first-level subdirectory that is not hidden
FrameHoldsMarkdown(framework_dir_key) ==
    LET frame_dir == PathsGet(framework_dir_key)
    IN  /\ Truthy(framework_dir_key) /\ Truthy(frame_dir) /\ IsDir(frame_dir)
        /\ \/ HasMd(frame_dir)
           \/ \E items \in {ListDir(frame_dir)} : \E k \in 1..Len(items) :
                 /\ ~StartsWith(items[k], ".")
                 /\ IsDir(Join(frame_dir, items[k]))
                 /\ HasMd(Join(frame_dir, items[k]))

\* C28: every structure get_docs_structure returns has at most one framework
\* section, and exactly one when the framework directory of the call holds a
\* Markdown file at its root or in a non-hidden first-level subdirectory,
\* whatever the definition list and whether or not the docs directory exists
C28_FrameworkOnce ==
    (call.op = "get_docs_structure" /\ ret.kind = "ok") =>
        /\ Cardinality(FrameworkSections) <= 1
        /\ FrameHoldsMarkdown(call.framework_dir_key)
              => Cardinality(FrameworkSections) = 1

\* both late names are defined, development twice and its directory empty,
\* and the one framework section comes first
C28_Witness ==
    /\ call.op = "get_docs_structure"
    /\ call.section_defs.given
    /\ Len(call.section_defs.defs) = 3
    /\ call.section_defs.defs[1][1] = "development"
    /\ call.section_defs.defs[3][1] = "development"
    /\ IsDir(Join(DocsDir, "development")) /\ ~HasMd(Join(DocsDir, "development"))
    /\ FrameHoldsMarkdown(call.framework_dir_key)
    /\ Len(ret.sections) = 2
    /\ ret.sections[1].framework
    /\ ret.sections[2].name = "Deployment"

\* the subdirectory an entry path of the framework section lies in ("" for a
\* file of the framework root)
SubdirOf(path) == IF Contains(path, "/") THEN Split(path)[1] ELSE ""

\* the place of a subdirectory in the preference order spec, python, js, others
PreferenceRank(subdir) ==
    CASE subdir = "spec" -> 0
      [] subdir = "python" -> 1
      [] subdir = "js" -> 2
      [] OTHER -> 3

\* the entry is the index.md of its directory
IsIndexOf(path) ==
    path = (IF SubdirOf(path) = "" THEN "index.md" ELSE SubdirOf(path) \o "/index.md")

\* C22: inside the framework section the root index.md is first, then the
\* other root files, then the subdirectory files grouped by subdirectory (the
\* files of one subdirectory contiguous, the groups in the preference order
\* spec, python, js, then others), index.md first inside each group and the
\* rest of the group in lexicographic order; every document of the section
\* carries the framework flag
C22_FrameworkOrder ==
    call.op = "get_docs_structure" =>
        \A s \in FrameworkSections : \E docs \in {ret.sections[s].docs} :
            /\ \A k \in 1..Len(docs) : docs[k].framework
            /\ \A k \in 1..Len(docs) : docs[k].path = "index.md" => k = 1
            /\ \A a, b \in 1..Len(docs) :
                  \E p \in {docs[a].path}, q \in {docs[b].path} :
                      a < b =>
                          /\ SubdirOf(q) = "" => SubdirOf(p) = ""
                          /\ (SubdirOf(p) # "" /\ SubdirOf(q) # "")
                                => PreferenceRank(SubdirOf(p)) <= PreferenceRank(SubdirOf(q))
                          /\ SubdirOf(p) = SubdirOf(q)
                                => /\ ~IsIndexOf(q)
                                   /\ ~IsIndexOf(p) => StrLt(p, q)
                                   /\ \A c \in a..b : SubdirOf(docs[c].path) = SubdirOf(p)

(***************************************************************************)
(* paths.py: the module's life in one process.  The application calls      *)
(* init, ensure_initialized, register and get in any order, and the        *)
(* docs_viewer operations, each of which begins with ensure_initialized()  *)
(* (extract_title_and_description excepted).  call holds the latest call   *)
(* with the module and the file system as they were before it (before)     *)
(* and the registrations the application has made so far (app); ret holds  *)
(* what the call returned.  A reading operation takes two steps, its       *)
(* ensure_initialized() and then the reading itself, with no other call    *)
(* between the two (call.pending).                                         *)
(***************************************************************************)
AppDir == "/srv/app"

PathFixedNodes ==
    {DirNode("", "opt"), DirNode("/opt", "aide-frame"),
     DirNode("/opt/aide-frame", "python"),
     DirNode("/opt/aide-frame/python", "aide_frame"),
     DirNode("", "srv"), DirNode("/srv", "app")}
    \cup DirWithFiles(AppDir, "docs", {"index.md", "a.md"})
    \cup DirWithFiles("/srv", "docs2", {"b.md"})
    \cup DirWithFiles("/srv/app/docs", "platform", {"index.md"})

\* the framework's own directories, which an installation has or has not
PathOptionalNodes ==
    {DirWithFiles("/opt/aide-frame", "docs", {"index.md"}),
     {DirNode("/opt/aide-frame", "static")}}

\* the names and paths the application registers
RegNames == {"DOCS_DIR", "AIDE_FRAME_DOCS_DIR"}
RegPaths == {"/srv/app/docs", "/srv/docs2"}

\* the operations of docs_viewer that begin with paths.ensure_initialized()
InitializingReads ==
    {"auto_discover_sections", "list_files", "load_file", "get_structure",
     "get_docs_structure"}

ReadOps == InitializingReads \cup {"extract_title_and_description"}

\* the module as it is now
PathsNow == [globals |-> pathGlobals, registry |-> registry]

Snapshot == [globals |-> pathGlobals, registry |-> registry, fs |-> fs]

PathsInitState ==
    /\ \E opt \in SUBSET PathOptionalNodes : fs = MkFs(PathFixedNodes \cup UNION opt)
    /\ lsRank = 1
    /\ registry = EmptyDict
    /\ pathGlobals = NotInitialized
    /\ call = [op |-> "none", name |-> "", before |-> Snapshot, app |-> EmptyDict,
               pending |-> FALSE]
    /\ ret = None
    /\ IconIdle /\ HashIdle

\* the call op(name) begins, and the module goes to state
PathsStep(op, name, state, app, pending) ==
    /\ ~call.pending
    /\ registry' = state.registry
    /\ pathGlobals' = state.globals
    /\ call' = [op |-> op, name |-> name, before |-> Snapshot, app |-> app,
                pending |-> pending]
    /\ UNCHANGED <<fs, lsRank, iconVars, hashVars>>

InitCall(app_dir) ==
    /\ PathsStep("init", app_dir, PathsInit(app_dir, PathsNow), call.app, FALSE)
    /\ ret' = None

EnsureInitializedCall ==
    /\ PathsStep("ensure_initialized", "", EnsureInitialized(PathsNow), call.app, FALSE)
    /\ ret' = None

RegisterCall(name, path) ==
    /\ PathsStep("register", name, Register(name, path, PathsNow),
                 SetItem(call.app, name, path), FALSE)
    /\ ret' = None

GetCall(name) ==
    /\ PathsStep("get", name, PathsNow, call.app, FALSE)
    /\ ret' = PathsGet(name)

\* one of the reading operations of docs_viewer on the directory of dir_key
\* begins: paths.ensure_initialized()
ReadBegin(op, dir_key) ==
    /\ PathsStep(op, dir_key,
                 IF op \in InitializingReads THEN EnsureInitialized(PathsNow)
                 ELSE PathsNow, call.app, TRUE)
    /\ ret' = None

\* the reading itself, which sees what ensure_initialized() left
ReadReturn ==
    /\ call.pending
    /\ call' = [call EXCEPT !.pending = FALSE]
    /\ ret' = CASE call.op = "auto_discover_sections"
                     -> AutoDiscoverSections(call.name, TRUE, 2, {})
                [] call.op = "list_files" -> ListFiles(call.name)
                [] call.op = "load_file" -> LoadFile(call.name, "index.md")
                [] call.op = "get_structure" -> GetStructure(call.name, TRUE)
                [] call.op = "get_docs_structure"
                     -> GetDocsStructure(call.name, "AIDE_FRAME_DOCS_DIR", NoDefs, TRUE, {})
                [] OTHER -> ExtractTitleAndDescription(Join(AppDir, "docs/a.md"))
    /\ UNCHANGED <<fs, lsRank, registry, pathGlobals, iconVars, hashVars>>

PathsNext ==
    \/ \E app_dir \in {None, AppDir} : InitCall(app_dir)
    \/ EnsureInitializedCall
    \/ \E name \in RegNames, path \in RegPaths : RegisterCall(name, path)
    \/ \E name \in RegNames \cup {"APP_DIR"} : GetCall(name)
    \/ \E op \in ReadOps, dir_key \in RegNames : ReadBegin(op, dir_key)
    \/ ReadReturn

SpecPaths == PathsInitState /\ [][PathsNext]_vars

\* C29: a path the application registers with paths.register(name, p) stays
\* in force until the application registers name again: after any later
\* sequence of init(), ensure_initialized() and register() calls on other
\* names (and of reading operations), paths.get(name) still returns p; and
\* once init has run, ensure_initialized changes nothing
C29_RegisteredStaysInForce ==
    /\ \A name \in DOMAIN call.app : PathsGet(name) = call.app[name]
    /\ (call.op = "ensure_initialized" /\ call.before.globals.initialized)
          => /\ pathGlobals = call.before.globals
             /\ registry = call.before.registry

\* C25 as the specification words it: after a reading operation the file
\* system and the path registry are as before, from any starting state
C25_AsStated ==
    call.op \in ReadOps =>
        /\ fs = call.before.fs
        /\ registry = call.before.registry
        /\ pathGlobals = call.before.globals

\* C25: the structure and metadata operations leave the file system as it
\* was, and the path registry and the base directories too once paths has
\* been initialized; a first call in a process where init has not run (any
\* of them but extract_title_and_description) runs init() with the detected
\* application directory and changes nothing else
C25_ReadsOnlyInitialize ==
    call.op \in ReadOps =>
        /\ fs = call.before.fs
        /\ (call.before.globals.initialized \/ call.op \notin InitializingReads)
              => /\ registry = call.before.registry
                 /\ pathGlobals = call.before.globals
        /\ (~call.before.globals.initialized /\ call.op \in InitializingReads)
              => [globals |-> pathGlobals, registry |-> registry]
                    = PathsInit(None, [globals |-> call.before.globals,
                                       registry |-> call.before.registry])

\* list_files is the first call of the process, on an installation with the
\* framework's docs directory: the registry gains AIDE_FRAME_DOCS_DIR, and
\* the call lists that directory
C25_Witness ==
    /\ call.op = "list_files" /\ call.name = "AIDE_FRAME_DOCS_DIR" /\ ~call.pending
    /\ ~call.before.globals.initialized
    /\ call.before.registry = EmptyDict
    /\ "AIDE_FRAME_DOCS_DIR" \in DOMAIN registry
    /\ ret = <<"index.md">>

(***************************************************************************)
(* http_routes.py: handle_request.  A request is given as urlparse and     *)
(* parse_qs leave it: [query_path, root, path], a parameter that the query *)
(* does not carry being None.  A configuration is a DocsConfig with the    *)
(* fields the routes read; custom_roots is a dict name -> CustomRoot       *)
(* (empty for None).  What the handler was told to send is a sequence of   *)
(* responses [status, type, sections, files, content]; the outcome of      *)
(* handle_request is [kind, responses, error] with kind "true", "false" or *)
(* "raise".  The handler itself never fails.                               *)
(***************************************************************************)
Response(status, type) ==
    [status |-> status, type |-> type, sections |-> <<>>, files |-> <<>>,
     content |-> <<>>]

\* return True after the one response resp
Answered(resp) == [kind |-> "true", responses |-> <<resp>>, error |-> ""]

\* return False
NotHandled == [kind |-> "false", responses |-> <<>>, error |-> ""]

\* an exception leaves handle_request, nothing sent
RouteRaised(error) == [kind |-> "raise", responses |-> <<>>, error |-> error]

\* _send_json(handler, data, status)
SendJson(status, type) == Answered(Response(status, type))

\* handler.send_error(status, message)
SendError(status) == Answered(Response(status, "error"))

\* lines 182-209: _get_viewer_config; found is FALSE for None
NoViewer ==
    [found |-> FALSE, dir_key |-> None, framework_dir_key |-> None,
     section_defs |-> NoDefs, title_suffix |-> "", use_sections |-> FALSE]

GetViewerConfig(config, root) ==
    IF root = "docs"
    THEN [found |-> TRUE, dir_key |-> config.docs_dir_key,
          framework_dir_key |-> config.framework_dir_key,
          section_defs |-> config.section_defs,
          title_suffix |-> "Documentation", use_sections |-> TRUE]
    ELSE IF root = "help"
    THEN [found |-> TRUE, dir_key |-> config.help_dir_key,
          framework_dir_key |-> None, section_defs |-> NoDefs,
          title_suffix |-> "Help", use_sections |-> FALSE]
    ELSE IF root \in DOMAIN config.custom_roots
    THEN [found |-> TRUE, dir_key |-> config.custom_roots[root].dir_key,
          framework_dir_key |-> None,
          section_defs |-> config.custom_roots[root].section_defs,
          title_suffix |-> config.custom_roots[root].title,
          use_sections |-> config.custom_roots[root].use_sections]
    ELSE NoViewer

\* lines 267-276: the structure of a root, as the viewer route answers it
ViewerStructure(viewer_cfg) ==
    IF viewer_cfg.use_sections
    THEN GetDocsStructure(viewer_cfg.dir_key, viewer_cfg.framework_dir_key,
                          viewer_cfg.section_defs, TRUE, {})
    ELSE CHOOSE r \in
           {IF flat.kind = "raise" THEN StructureRaised
            ELSE [kind |-> "ok", files |-> <<>>,
                  sections |-> <<[name |-> viewer_cfg.title_suffix,
                                  docs |-> flat.files, framework |-> FALSE]>>] :
            flat \in {GetStructure(viewer_cfg.dir_key, TRUE)}} : TRUE

\* a structure sent as JSON, or the exception that left its making
SendStructure(structure) ==
    IF structure.kind = "raise" THEN RouteRaised("UnicodeDecodeError")
    ELSE Answered([Response(200, "structure") EXCEPT
                     !.sections = structure.sections, !.files = structure.files])

\* lines 296-305 (and 375-380, 396-400): a loaded document sent, 404 for None
SendDocument(loaded) ==
    IF loaded.kind = "raise" THEN RouteRaised(loaded.error)
    ELSE IF loaded.kind = "content"
    THEN Answered([Response(200, "content") EXCEPT !.content = loaded.lines])
    ELSE SendJson(404, "error")

\* the file name ends in one of the extensions sent as bytes (names here are
\* lower case, .lower() leaves them)
IsBinary(file_path, exts) == \E e \in exts : EndsWith(file_path, e)

\* lines 455-474: _send_file
SendFile(filepath, binary) ==
    CHOOSE r \in
      {IF got.kind = "content" \/ (binary /\ got.error = "UnicodeDecodeError")
       THEN Answered(Response(200, "file"))
       ELSE IF got.error = "FileNotFoundError" THEN SendError(404)
       ELSE SendError(500) :
       got \in {ReadFile(filepath)}} : TRUE

\* lines 477-492: _serve_template; os.path.join(None, ...) raises TypeError
ServeTemplate(template_name) ==
    LET static_dir == PathsGet("AIDE_FRAME_STATIC_DIR")
    IN  IF static_dir = None THEN RouteRaised("TypeError")
        ELSE IF ~IsFile(Join(Join(static_dir, "templates"), template_name))
        THEN SendError(404)
        ELSE IF ReadFile(Join(Join(static_dir, "templates"), template_name)).kind
                  = "content"
        THEN Answered(Response(200, "html"))
        ELSE SendError(500)

\* lines 495-514: _serve_frame_static
ServeFrameStatic(file_path) ==
    LET static_dir == PathsGet("AIDE_FRAME_STATIC_DIR")
    IN  IF Contains(file_path, "..") \/ StartsWith(file_path, "/") THEN SendError(403)
        ELSE IF static_dir = None THEN RouteRaised("TypeError")
        ELSE IF ~IsFile(Join(static_dir, file_path)) THEN SendError(404)
        ELSE SendFile(Join(static_dir, file_path),
                      IsBinary(file_path, {".png", ".jpg", ".jpeg", ".gif", ".ico",
                                           ".webp", ".woff", ".woff2"}))

\* lines 517-540: _serve_docs_asset
ServeDocsAsset(asset_path, docs_dir_key) ==
    LET docs_dir == PathsGet(docs_dir_key)
    IN  IF Contains(asset_path, "..") \/ StartsWith(asset_path, "/") THEN SendError(403)
        ELSE IF ~Truthy(docs_dir) THEN SendError(404)
        ELSE IF ~IsFile(Join(docs_dir, asset_path)) THEN SendError(404)
        ELSE SendFile(Join(docs_dir, asset_path),
                      IsBinary(asset_path, {".png", ".jpg", ".jpeg", ".gif", ".ico",
                                            ".webp"}))

\* s[n:], n counted from 0
DropPrefix(s, n) == SubSeq(s, n + 1, Len(s))

\* route.rstrip('/')
RStripSlash(s) ==
    CHOOSE r \in {SubSeq(x, 1, IF \A i \in 1..Len(x) : Ch(x, i) = "/" THEN 0
                               ELSE CHOOSE i \in 1..Len(x) :
                                      /\ Ch(x, i) # "/"
                                      /\ \A j \in (i + 1)..Len(x) : Ch(x, j) = "/") :
                  x \in {s}} : TRUE

\* lines 165-185: list_files_recursive; os.walk descends into directories
\* that are not symbolic links and names the other entries as files
UnderWalk(base, p) ==
    /\ StartsWith(p, base \o "/")
    /\ fs[p].kind # "dir"
    /\ \A q \in DOMAIN fs :
          (StartsWith(p, q \o "/") /\ StartsWith(q, base \o "/")) => fs[q].kind = "dir"

ListFilesRecursive(dir_key) ==
    LET base_dir == PathsGet(dir_key)
    IN  IF ~Truthy(base_dir) \/ ~IsDir(base_dir) THEN <<>>
        ELSE CHOOSE r \in
               {Sorted(SetToSeq({DropPrefix(p, Len(real) + 1) :
                                   p \in {q \in DOMAIN fs :
                                            UnderWalk(real, q) /\ EndsWith(q, ".md")}})) :
                real \in {IF base_dir \in DOMAIN fs /\ fs[base_dir].kind = "dir"
                          THEN base_dir ELSE RealPath(base_dir)}} : TRUE

\* params.get(name, [default])[0]
Param(value, default) == IF value = None THEN default ELSE value

\* the custom roots whose viewer page the path names (lines 318-323)
PageRoots(config, query_path) ==
    {name \in DOMAIN config.custom_roots :
        \E route \in {RStripSlash(config.custom_roots[name].route)} :
            query_path = route \/ query_path = route \o ".html"}

\* the custom roots whose assets the path names (lines 337-343)
AssetRoots(config, query_path) ==
    {name \in DOMAIN config.custom_roots :
        StartsWith(query_path, "/" \o name \o "-assets/")}

\* lines 346-403: the routes after the custom roots' assets
LegacyRoutes(query_path, config) ==
    IF StartsWith(query_path, "/static/frame/")
    THEN ServeFrameStatic(DropPrefix(query_path, 14))
    ELSE IF config.enable_docs /\ query_path = "/api/docs/structure"
    THEN SendStructure(GetDocsStructure(config.docs_dir_key, config.framework_dir_key,
                                        config.section_defs, TRUE, {}))
    ELSE IF config.enable_docs /\ StartsWith(query_path, "/api/docs/")
    THEN (IF DropPrefix(query_path, 10) = ""
          THEN Answered([Response(200, "list") EXCEPT
                           !.files = ListFilesRecursive(config.docs_dir_key)])
          ELSE IF StartsWith(DropPrefix(query_path, 10), "framework/")
          THEN SendDocument(LoadFile(config.framework_dir_key,
                                     DropPrefix(query_path, 20)))
          ELSE SendDocument(LoadFile(config.docs_dir_key, DropPrefix(query_path, 10))))
    ELSE IF config.enable_help /\ query_path = "/api/help/structure"
    THEN SendStructure(GetStructure(config.help_dir_key, TRUE))
    ELSE IF config.enable_help /\ StartsWith(query_path, "/api/help/")
    THEN (IF DropPrefix(query_path, 10) = ""
          THEN SendStructure(GetStructure(config.help_dir_key, TRUE))
          ELSE SendDocument(LoadFile(config.help_dir_key, DropPrefix(query_path, 10))))
    ELSE NotHandled

\* lines 309-343: the viewer pages and the assets
PageRoutes(query_path, config) ==
    IF config.enable_docs /\ query_path \in {"/about", "/about.html"}
    THEN ServeTemplate("viewer.html")
    ELSE IF config.enable_help /\ query_path \in {"/help", "/help.html"}
    THEN ServeTemplate("viewer.html")
    ELSE IF PageRoots(config, query_path) # {} THEN ServeTemplate("viewer.html")
    ELSE IF StartsWith(query_path, "/docs-assets/")
    THEN ServeDocsAsset(DropPrefix(query_path, 13), config.docs_dir_key)
    ELSE IF StartsWith(query_path, "/help-assets/")
    THEN ServeDocsAsset(DropPrefix(query_path, 13), config.help_dir_key)
    ELSE IF AssetRoots(config, query_path) # {}
    THEN \* the first root of the dict that matches; the dicts here have one root
         LET name == CHOOSE n \in AssetRoots(config, query_path) : TRUE
         IN  ServeDocsAsset(DropPrefix(query_path, Len(name) + 9),
                            config.custom_roots[name].dir_key)
    ELSE LegacyRoutes(query_path, config)

\* lines 260-306: the viewer API
ViewerRoutes(req, config) ==
    LET viewer_cfg == GetViewerConfig(config, Param(req.root, "docs"))
        file_path == Param(req.path, "index.md")
        framework == StartsWith(file_path, "framework/")
    IN  IF ~viewer_cfg.found THEN SendJson(400, "error")
        ELSE IF req.query_path = "/api/viewer/structure"
        THEN SendStructure(ViewerStructure(viewer_cfg))
        ELSE SendDocument(LoadFile(IF framework THEN viewer_cfg.framework_dir_key
                                   ELSE viewer_cfg.dir_key,
                                   IF framework THEN DropPrefix(file_path, 10)
                                   ELSE file_path))

\* handle_request(handler, path, config)
HandleRequest(req, config) ==
    IF req.query_path = "/manifest.json" /\ config.pwa = "enabled"
    THEN SendJson(200, "manifest")
    ELSE IF req.query_path = "/api/app/config" THEN SendJson(200, "config")
    ELSE IF req.query_path \in {"/api/viewer/structure", "/api/viewer/content"}
    THEN ViewerRoutes(req, config)
    ELSE PageRoutes(req.query_path, config)

StaticDir == "/opt/static"

\* the trees and files every file system of this family holds
RouteFixedNodes ==
    {DirNode("", "app"), DirNode("/app", "docs"), DirNode("/app", "help"),
     DirNode("/app", "contracts"), DirNode("/app", "notes"), DirNode("", "opt"),
     DirNode("/opt", "frame"), DirNode("/opt", "static"),
     DirNode("/opt/static", "templates"), DirNode("/opt/static", "css"),
     FileNode("/opt/static/css", "base.css", <<"body {}">>),
     FileNode("/opt/frame", "index.md", <<"# Frame">>),
     FileNode("/app/docs", "index.md", <<"# Home">>),
     DirNode("/app/docs", "sub"),
     FileNode("/app/docs/sub", "page.md", <<"# Page">>),
     [FileNode("/app/docs", "logo.png", <<>>) EXCEPT !.mode = "badutf8"],
     FileNode("/app/contracts", "c1.md", <<"# Contract">>)}

\* what a file system of this family has or has not
RouteOptionalNodes ==
    {FileNode("/opt/static/templates", "viewer.html", <<"<html>">>),
     FileNode("/app/help", "index.md", <<"# Help">>),
     [FileNode("/app/docs", "bad.md", <<>>) EXCEPT !.mode = "badutf8"]}

\* the registry with and without the keys that init() and DocsConfig register
\* only for directories that exist
RouteRegistries ==
    LET always == [k \in {"DOCS_DIR", "CONTRACTS_DIR", "NOTES_DIR", "AIDE_FRAME_DOCS_DIR"} |->
                     CASE k = "DOCS_DIR" -> DocsDir
                       [] k = "CONTRACTS_DIR" -> "/app/contracts"
                       [] k = "NOTES_DIR" -> "/app/notes"
                       [] OTHER -> FrameDir]
    IN  {always @@ extra : extra \in {EmptyDict,
                                      [k \in {"AIDE_FRAME_STATIC_DIR"} |-> StaticDir],
                                      [k \in {"AIDE_FRAME_STATIC_DIR", "HELP_DIR"} |->
                                         IF k = "HELP_DIR" THEN "/app/help"
                                         ELSE StaticDir]}}

CustomRoot(dir_key, title, route, use_sections) ==
    [dir_key |-> dir_key, title |-> title, route |-> route,
     use_sections |-> use_sections, section_defs |-> NoDefs]

DefaultConfig ==
    [docs_dir_key |-> "DOCS_DIR", framework_dir_key |-> "AIDE_FRAME_DOCS_DIR",
     section_defs |-> NoDefs, help_dir_key |-> "HELP_DIR",
     custom_roots |-> EmptyDict, pwa |-> "none",
     enable_docs |-> TRUE, enable_help |-> TRUE]

\* the configurations the application is started with
RouteConfigs ==
    {DefaultConfig,
     [DefaultConfig EXCEPT !.pwa = "enabled", !.enable_help = FALSE,
        !.custom_roots = [n \in {"contracts"} |->
                            CustomRoot("CONTRACTS_DIR", "Contracts", "/contracts/", FALSE)]],
     [DefaultConfig EXCEPT !.pwa = "disabled", !.enable_docs = FALSE,
        !.section_defs = GivenDefs(<<<<"missing", "Missing">>>>),
        !.custom_roots = [n \in {"notes"} |->
                            CustomRoot("NOTES_DIR", "Notes", "/notes", TRUE)]]}

\* the paths asked for, and the query parameters of the viewer API
QueryPaths ==
    {"/manifest.json", "/api/app/config", "/about", "/about.html", "/help",
     "/help.html", "/contracts", "/contracts.html", "/notes",
     "/docs-assets/logo.png", "/docs-assets/../secret", "/docs-assets/missing.png",
     "/help-assets/index.md", "/contracts-assets/c1.md", "/notes-assets/x.png",
     "/static/frame/css/base.css", "/static/frame/../x", "/static/frame/none.css",
     "/api/docs/structure", "/api/docs/", "/api/docs/index.md",
     "/api/docs/framework/index.md", "/api/docs/sub", "/api/help/structure",
     "/api/help/", "/api/help/index.md", "/api/help/nope.md", "/other", "/"}

Requests ==
    {[query_path |-> q, root |-> None, path |-> None] : q \in QueryPaths}
    \cup {[query_path |-> q, root |-> r, path |-> p] :
            q \in {"/api/viewer/structure", "/api/viewer/content"},
            r \in {None, "docs", "help", "contracts", "notes", "nope"},
            p \in {None, "sub/page.md", "framework/index.md", "sub", "../x"}}

RouteInit ==
    /\ \E opt \in SUBSET RouteOptionalNodes : fs = MkFs(RouteFixedNodes \cup opt)
    /\ lsRank = 1
    /\ registry \in RouteRegistries
    /\ pathGlobals = InitializedAt("/app")
    /\ call = [op |-> "none"]
    /\ ret = NotHandled
    /\ IconIdle /\ HashIdle

HandleRequestCall(req, config) ==
    /\ call.op = "none"
    /\ call' = [op |-> "handle_request", req |-> req, config |-> config]
    /\ ret' = HandleRequest(req, config)
    /\ UNCHANGED <<fs, lsRank, registry, pathGlobals, iconVars, hashVars>>

RouteNext == \E req \in Requests, config \in RouteConfigs : HandleRequestCall(req, config)

SpecRoutes == RouteInit /\ [][RouteNext]_vars

\* C19: for every request path and configuration, also one where the
\* framework static directory is not registered, handle_request returns True
\* exactly when it has written one complete response to the handler, returns
\* False having written nothing, and never ends by raising
C19_AnswersOrDeclines ==
    call.op = "handle_request" =>
        \/ ret.kind = "true" /\ Len(ret.responses) = 1
        \/ ret.kind = "false" /\ ret.responses = <<>>

\* the request names the built-in root ("docs" or "help"): through the viewer
\* API, whose root parameter defaults to docs, through the root's assets or
\* through its legacy API
AddressesRoot(req, root) ==
    \/ /\ req.query_path \in {"/api/viewer/structure", "/api/viewer/content"}
       /\ Param(req.root, "docs") = root
    \/ StartsWith(req.query_path, "/" \o root \o "-assets/")
    \/ StartsWith(req.query_path, "/api/" \o root \o "/")

\* the outcome is a structure, a document list, a document or a file, sent
\* with status 200
ServedContent(outcome) ==
    /\ outcome.kind = "true"
    /\ \E r \in 1..Len(outcome.responses) :
          /\ outcome.responses[r].status = 200
          /\ outcome.responses[r].type \in {"structure", "list", "content", "file"}

\* C30: with enable_docs false no request that names the docs root is answered
\* with its structure, a document of it or an asset of it, and likewise for
\* the help root with enable_help false
C30_DisabledServesNothing ==
    call.op = "handle_request" =>
        \A root \in {"docs", "help"} :
            (/\ ~(IF root = "docs" THEN call.config.enable_docs
                  ELSE call.config.enable_help)
             /\ AddressesRoot(call.req, root))
                => ~ServedContent(ret)

\* C11: no structure handed to callers holds a section with an empty document
\* list: get_docs_structure leaves out every definition and every framework
\* root without documents, and the structure the /api/viewer/structure route
\* returns for a sectioned or a flat root has no section without documents
C11_NoEmptySection ==
    (call.op = "handle_request" /\ ret.kind = "true") =>
        \A r \in 1..Len(ret.responses) :
            \A s \in 1..Len(ret.responses[r].sections) :
                ret.responses[r].sections[s].docs # <<>>

(***************************************************************************)
(* Hashing two configurations: the inputs of _compute_icon_hash drawn from *)
(* a family of pwa configurations that set, default or omit their fields   *)
(***************************************************************************)
\* a key that is left out, or set to one of vals
Opt(k, vals) == {<<k, FALSE, "">>} \cup {<<k, TRUE, v>> : v \in vals}

\* the dict holding the keys of S that are set
DictOf(S) ==
    [k \in {p[1] : p \in {q \in S : q[2]}} |-> (CHOOSE p \in S : p[1] = k)[3]]

\* the three fields the family sets together, to their defaults, or omits
RestDefaults ==
    [line1_color |-> "#94a3b8", line2_color |-> "#ffffff", line2_size |-> 45]

IconUniverse ==
    {DictOf({bg, t1, s1, t2}) @@ (IF rest THEN RestDefaults ELSE EmptyDict) :
        bg \in Opt("background", {"#2563eb", "#000000"}),
        t1 \in Opt("line1_text", {"aide"}),
        s1 \in Opt("line1_size", {25}),
        t2 \in Opt("line2_text", {"Py"}),
        rest \in BOOLEAN}

PwaUniverse ==
    {[icon |-> i] @@ DictOf({th, nm}) :
        i \in IconUniverse,
        th \in Opt("theme_color", {"", "#000000"}),
        nm \in Opt("name", {"App"})}

\* the first configuration is drawn from those without a name
PwaUniverseA == {p \in PwaUniverse : "name" \notin DOMAIN p}

\* _compute_icon_hash as ensure_icons calls it (lines 210-211), per configuration
HashOf ==
    [p \in PwaUniverse |-> ComputeIconHash(IconConfigOf(p), ThemeColorOf(p))]

HashInit ==
    /\ cfgA \in PwaUniverseA
    /\ cfgB \in PwaUniverse
    /\ hashA = None /\ hashB = None
    /\ IconIdle /\ DocIdle

ComputeHashA ==
    /\ hashA = None
    /\ hashA' = HashOf[cfgA]
    /\ UNCHANGED <<cfgA, cfgB, hashB, iconVars, docVars>>

ComputeHashB ==
    /\ hashB = None
    /\ hashB' = HashOf[cfgB]
    /\ UNCHANGED <<cfgA, cfgB, hashA, iconVars, docVars>>

HashNext == ComputeHashA \/ ComputeHashB

SpecHash == HashInit /\ [][HashNext]_vars

(***************************************************************************)
(* Properties of the hash, checked under SpecHash                          *)
(***************************************************************************)
\* the seven normalized icon fields of a pwa configuration: each field as set,
\* or its documented default (the background defaults to the theme colour, and
\* to #2563eb without one)
NormalizedFields(pwa) ==
    LET icon == IF "icon" \in DOMAIN pwa THEN pwa.icon ELSE EmptyDict
        theme == IF "theme_color" \in DOMAIN pwa /\ pwa.theme_color # ""
                 THEN pwa.theme_color ELSE "#2563eb"
        field(k, default) == IF k \in DOMAIN icon THEN icon[k] ELSE default
    IN  [background |-> field("background", theme),
         line1_text |-> field("line1_text", "aide"),
         line1_color |-> field("line1_color", "#94a3b8"),
         line1_size |-> field("line1_size", 25),
         line2_text |-> field("line2_text", ""),
         line2_color |-> field("line2_color", "#ffffff"),
         line2_size |-> field("line2_size", 45)]

\* C4: two configurations that agree on the seven normalized fields get the
\* same hash, in whichever order the two are hashed and whatever else they hold.
C4_HashOfNormalizedFields ==
    (hashA # None /\ hashB # None
        /\ NormalizedFields(cfgA) = NormalizedFields(cfgB)) => hashA = hashB

\* two different configurations, one omitting what the other sets, hashed alike
C4_Witness ==
    /\ hashA # None /\ hashB # None
    /\ cfgA # cfgB
    /\ DOMAIN cfgA.icon # DOMAIN cfgB.icon
    /\ NormalizedFields(cfgA) = NormalizedFields(cfgB)
    /\ hashA = hashB

(***************************************************************************)
(* Properties of the icon cache, checked under SpecIcons                   *)
(***************************************************************************)
\* the file carries the digest h: it exists, can be read and its first marker is h
Carries(file, h) == file.exists /\ file.readable /\ SearchMarker(file.content, 1) = h

Line2Set(c) == Truthy(Get(IconConfigOf(PwaConfigs[c]), "line2_text", None))

\* the latest call found both files carrying the hash of its configuration
FoundCurrent ==
    \A s \in Sizes : Carries(last.before[s], ExpectedHash[last.cfg])

\* C2 as stated: of two calls in succession with one configuration and force
\* false, the first returns true and the second returns false and writes nothing.
C2_AsStated ==
    prev # NoPrev =>
        prev = "true" /\ last.result = "false" /\ last.wrote = {}

\* C2, amended: when the first of two such calls returned true and both files
\* can be read, the second call returns false, writes nothing and leaves both
\* files as they were.
C2_SecondCallSkips ==
    (prev = "true" /\ \A s \in Sizes : icons[s].readable) =>
        /\ last.result = "false"
        /\ last.wrote = {}
        /\ icons = last.before

C2_Witness ==
    /\ prev = "true"
    /\ \A s \in Sizes : icons[s].readable
    /\ last.made /\ last.result = "false"

Line2Absent(c) ==
    \/ "line2_text" \notin DOMAIN IconConfigOf(PwaConfigs[c])
    \/ IconConfigOf(PwaConfigs[c])["line2_text"] = ""

\* C14: when pwa.icon.line2_text is absent or empty, ensure_icons does nothing
\* for every value of force and every state of the target directory: it
\* returns false, writes and changes no file and does not create the icons
\* directory
C14_NoOpWithoutLine2 ==
    (last.made /\ Line2Absent(last.cfg)) =>
        /\ last.result = "false"
        /\ last.wrote = {}
        /\ icons = last.before
        /\ iconsDir = last.dirBefore

\* a forced call with an empty line2_text, the icons directory not there
C14_Witness ==
    /\ last.made /\ last.force /\ ~last.dirBefore
    /\ "line2_text" \in DOMAIN IconConfigOf(PwaConfigs[last.cfg])
    /\ Line2Absent(last.cfg)
    /\ last.result = "false" /\ ~iconsDir

\* C15: ensure_icons never raises to its caller on an I/O failure: when
\* creating the output directory or writing either icon file fails, it returns
\* false
C15_NoRaiseOnIoFailure ==
    last.made =>
        /\ last.result # "raise"
        /\ last.fault # "none" => last.result = "false"

\* C27: whenever ensure_icons skips generation for a configured icon (it
\* returns false and no I/O failure happened), both asset files are the
\* complete icons _generate_svg produces for the current configuration
C27_SkipMeansComplete ==
    (/\ last.made /\ last.result = "false" /\ last.fault = "none"
     /\ Line2Set(last.cfg))
        => \A s \in Sizes :
              icons[s].exists /\ icons[s].content = IconSvg[last.cfg][s]

====
